---- MODULE Spec2Model ----
(***************************************************************************)
(* FFmpegExecutor (src/ffmpeg_executor.h), Unix path: execute() / stop() / *)
(* setAutoOverwrite() on one instance, the worker's poll/read/drain loop,  *)
(* the line reassembly of processOutput and the three substring tests of   *)
(* processLine, together with the pipes and the child process they act on. *)
(*                                                                         *)
(* A std::string is a sequence of one-character strings; positions are     *)
(* 0-based as in the source and npos stands for std::string::npos.         *)
(***************************************************************************)
EXTENDS Integers, Sequences, FiniteSets, TLC

\* ------------------------------------------------------------------ bounds
\* capture-pipe bytes fed to the reassembly harness (SpecSplit)
MaxLen == 4
\* lines handed to processLine by the classification harness (SpecClassify)
MaxLines == 2
\* execute() calls issued per caller thread
MaxCalls == 1
\* stop() calls issued by the controlling thread
MaxStops == 1

\* ------------------------------------------------------------ std::string
npos == -1
NoFd == -1
NoPid == -1
BUF_SIZE == 4096

NL == "\n"
CR == "\r"
NUL == "NUL"

UpperToLower ==
  [A |-> "a", B |-> "b", C |-> "c", D |-> "d", E |-> "e", F |-> "f", G |-> "g",
   H |-> "h", I |-> "i", J |-> "j", K |-> "k", L |-> "l", M |-> "m", N |-> "n",
   O |-> "o", P |-> "p", Q |-> "q", R |-> "r", S |-> "s", T |-> "t", U |-> "u",
   V |-> "v", W |-> "w", X |-> "x", Y |-> "y", Z |-> "z"]

\* std::tolower on one unsigned char (C locale): A-Z are mapped, all else is kept
tolower(c) == IF c \in DOMAIN UpperToLower THEN UpperToLower[c] ELSE c

toLower(str) == [i \in 1..Len(str) |-> tolower(str[i])]

Min(S) == CHOOSE x \in S : \A y \in S : x <= y

\* std::string::substr(pos) and substr(pos, n), 0-based
substr(s, pos) == SubSeq(s, pos + 1, Len(s))
substr2(s, pos, n) == SubSeq(s, pos + 1, pos + n)

\* std::string::find(pat, from): the first 0-based position >= from at which
\* pat occurs, npos when there is none
find(s, pat, from) ==
  LET hits == {i \in from..(Len(s) - Len(pat)) : substr2(s, i, Len(pat)) = pat}
  IN  IF hits = {} THEN npos ELSE Min(hits)

contains(s, pat) == find(s, pat, 0) # npos

\* the bytes of a char buffer up to its terminating NUL, as operator+ and
\* std::string(const char*) read them
c_str(buf) ==
  LET z == find(buf, <<NUL>>, 0)
  IN  IF z = npos THEN buf ELSE substr2(buf, 0, z)

\* ------------------------------------------------- literals of the source
KW_error == <<"e", "r", "r", "o", "r">>
KW_failed == <<"f", "a", "i", "l", "e", "d">>
KW_invalid == <<"i", "n", "v", "a", "l", "i", "d">>
KW_unable == <<"u", "n", "a", "b", "l", "e">>
KW_cannot == <<"c", "a", "n", "n", "o", "t">>
KW_unknown == <<"u", "n", "k", "n", "o", "w", "n">>
KW_not_found == <<"n", "o", "t", " ", "f", "o", "u", "n", "d">>
KW_permission_denied == <<"p", "e", "r", "m", "i", "s", "s", "i", "o", "n", " ", "d", "e", "n", "i", "e", "d">>
KW_access_denied == <<"a", "c", "c", "e", "s", "s", " ", "d", "e", "n", "i", "e", "d">>
NON_MONOTONOUS == <<"n", "o", "n", "-", "m", "o", "n", "o", "t", "o", "n", "o", "u", "s">>
ALREADY_EXISTS == <<"a", "l", "r", "e", "a", "d", "y", " ", "e", "x", "i", "s", "t", "s">>
OVERWRITE == <<"o", "v", "e", "r", "w", "r", "i", "t", "e">>
OVERWRITE_Q == <<"o", "v", "e", "r", "w", "r", "i", "t", "e", "?">>
OVERWRITE_YN == <<"o", "v", "e", "r", "w", "r", "i", "t", "e", " ", "(", "y", "/", "n", ")">>
VIDEO_MARK == <<"v", "i", "d", "e", "o", ":">>
AUDIO_MARK == <<"a", "u", "d", "i", "o", ":">>
SUBTITLE_MARK == <<"s", "u", "b", "t", "i", "t", "l", "e", ":">>
MUXING_OVERHEAD == <<"m", "u", "x", "i", "n", "g", " ", "o", "v", "e", "r", "h", "e", "a", "d">>
YES_TOKEN == <<"y", "\n">>
CN_EXISTS == <<"xE5", "xB7", "xB2", "xE5", "xAD", "x98", "xE5", "x9C", "xA8">>
CN_OVERWRITE == <<"xE8", "xA6", "x86", "xE7", "x9B", "x96">>

error_keywords ==
  <<KW_error, KW_failed, KW_invalid, KW_unable, KW_cannot, KW_unknown,
    KW_not_found, KW_permission_denied, KW_access_denied>>

\* result.error of a rejected call and of the three launch failures (the
\* source's message literals, each kept as one opaque non-empty text)
ERR_ALREADY_RUNNING == <<"ERR_ALREADY_RUNNING">>
ERR_STDOUT_PIPE == <<"ERR_STDOUT_PIPE">>
ERR_STDIN_PIPE == <<"ERR_STDIN_PIPE">>
ERR_FORK == <<"ERR_FORK">>
ERR_CREATE_PROCESS == <<"ERR_CREATE_PROCESS">>

\* a HANDLE that holds nothing, and the exit code of a process that runs
nullptr == 0
STILL_ACTIVE == 259

\* ---------------------------------------------------- the three line tests
\* lines 167-190
\* the prompt test satisfied by one marker alone
detectOverwritePromptAnyMarker(line) ==
  LET line_lower == toLower(line)
  IN  \/ contains(line_lower, ALREADY_EXISTS) \/ contains(line_lower, OVERWRITE)
      \/ contains(line, CN_EXISTS) \/ contains(line, CN_OVERWRITE)

detectOverwritePrompt(line) ==
  LET line_lower == toLower(line)
  IN  \/ contains(line_lower, ALREADY_EXISTS) /\ contains(line_lower, OVERWRITE)
      \/ contains(line_lower, OVERWRITE_Q)
      \/ contains(line_lower, OVERWRITE_YN)
      \/ contains(line, CN_EXISTS) /\ contains(line, CN_OVERWRITE)

\* detectError comparing the keywords with the line as written
detectErrorCaseSensitive(line) ==
  \E k \in 1..Len(error_keywords) :
    /\ contains(line, error_keywords[k])
    /\ ~contains(toLower(line), NON_MONOTONOUS)

\* detectError looking for the benign warning in the line as written
detectErrorRawExclusion(line) ==
  LET line_lower == toLower(line)
  IN  \E k \in 1..Len(error_keywords) :
        /\ contains(line_lower, error_keywords[k])
        /\ ~contains(line, NON_MONOTONOUS)

\* lines 197-218: a keyword counts unless the line holds "non-monotonous"
detectError(line) ==
  LET line_lower == toLower(line)
  IN  \E k \in 1..Len(error_keywords) :
        /\ contains(line_lower, error_keywords[k])
        /\ ~contains(line_lower, NON_MONOTONOUS)

\* lines 225-241
\* the success test satisfied by one stream marker alone
detectSuccessAnyMarker(line) ==
  LET line_lower == toLower(line)
  IN  \/ contains(line_lower, VIDEO_MARK)
      \/ contains(line_lower, AUDIO_MARK)
      \/ contains(line_lower, SUBTITLE_MARK)
      \/ contains(line_lower, MUXING_OVERHEAD)

detectSuccess(line) ==
  LET line_lower == toLower(line)
  IN  \/ /\ contains(line_lower, VIDEO_MARK)
         /\ contains(line_lower, AUDIO_MARK)
         /\ contains(line_lower, SUBTITLE_MARK)
      \/ contains(line_lower, MUXING_OVERHEAD)

\* ------------------------------------------------------------------ state
Callers == {1, 2}

VARIABLES
  \* one execute() frame (and its worker thread) per caller thread
  pc, result, remaining_output,
  \* members of the FFmpegExecutor instance
  is_running_, auto_overwrite_, output_buffer_, last_error_,
  stdout_pipe_, stdin_pipe_, child_pid_,
  \* the operating system: descriptors open in the supervising process, the
  \* pipes, the child processes, the SIGPIPE disposition the process was
  \* started with, and whether the process is still alive
  open_fds, pipes, children, sigpipe_ignored, proc_alive,
  \* history: per caller what the call in flight did, and counters
  hist, calls, stops, kills, bad_closes,
  \* the build (whether _WIN32 is defined) and the members a Windows build
  \* has in place of stdout_pipe_, stdin_pipe_ and child_pid_
  win32, stdout_read_handle_, stdout_write_handle_, stdin_read_handle_,
  stdin_write_handle_, process_info_,
  \* input of the reassembly harness: a byte stream and how much was fed
  h_stream, h_pos

vars ==
  <<pc, result, remaining_output, is_running_, auto_overwrite_, output_buffer_,
    last_error_, stdout_pipe_, stdin_pipe_, child_pid_, open_fds, pipes,
    children, sigpipe_ignored, proc_alive, hist, calls, stops, kills,
    bad_closes, win32, stdout_read_handle_, stdout_write_handle_,
    stdin_read_handle_, stdin_write_handle_, process_info_, h_stream, h_pos>>

members ==
  <<is_running_, auto_overwrite_, output_buffer_, last_error_, stdout_pipe_,
    stdin_pipe_, child_pid_>>

os == <<open_fds, pipes, children, sigpipe_ignored, proc_alive>>

harness == <<h_stream, h_pos>>

windows ==
  <<win32, stdout_read_handle_, stdout_write_handle_, stdin_read_handle_,
    stdin_write_handle_, process_info_>>

\* struct ExecuteResult as execute() initialises it
NewResult ==
  [success |-> FALSE, exitCode |-> -1, output |-> <<>>, error |-> <<>>,
   overwritePrompted |-> FALSE, overwriteConfirmed |-> FALSE]

\* waitpid has not reported the end of a child
NotObserved == [wait_result |-> 0, exited |-> FALSE, code |-> 0]

\* what is remembered of the call in flight: the lines handed to processLine,
\* the pipes and the child the call created (0: none), whether auto_overwrite_
\* was ever true since the call was accepted, and what waitpid reported
NewHist ==
  [classified |-> <<>>, cap |-> 0, feed |-> 0, child |-> 0,
   auto_on |-> FALSE, observed |-> NotObserved, sent |-> 0,
   read_error |-> FALSE]

\* ------------------------------------------------------- pipes, descriptors
\* pipe p (1, 2, ...) has the descriptors 2p+1 (read end) and 2p+2 (write end)
ReadFd(p) == 2 * p + 1
WriteFd(p) == 2 * p + 2
PipeOf(fd) == (fd - 1) \div 2
IsReadEnd(fd) == fd % 2 = 1
IsPipeFd(fd) == fd >= 3 /\ PipeOf(fd) \in 1..Len(pipes)

NewPipe == [data |-> <<>>, written |-> <<>>]

Running(c) == c \in 1..Len(children) /\ children[c].state = "running"

\* an open read end: the supervising process's own, or a running child's stdin
HasReader(p) ==
  \/ ReadFd(p) \in open_fds
  \/ \E c \in 1..Len(children) : Running(c) /\ children[c].inp = p

\* an open write end: the supervising process's own, or a running child's
\* stdout/stderr
HasWriter(p) ==
  \/ WriteFd(p) \in open_fds
  \/ \E c \in 1..Len(children) : Running(c) /\ children[c].out = p

\* close(fd) on the descriptor table; closing what is not open is EBADF
close(fds, fd) == fds \ {fd}
BadClose(fds, fd) == IF fd \in fds THEN 0 ELSE 1

\* ----------------------------------------------------------- sendInput
\* write(stdin_pipe_[1], input): st carries what the worker's step has changed
\* so far. With no reader left the write raises SIGPIPE, which ends the
\* supervising process unless it was started with SIGPIPE ignored (then EPIPE).
\* In a Windows build it is WriteFile(stdin_write_handle_, input), which fails
\* with no reader left and whose failure is not looked at.
sendInput(input, st) ==
  LET fd == IF win32 THEN stdin_write_handle_ ELSE stdin_pipe_[1]
      p == PipeOf(fd)
  IN  IF fd = (IF win32 THEN nullptr ELSE NoFd) THEN st
      ELSE IF ~(fd \in open_fds /\ IsPipeFd(fd) /\ ~IsReadEnd(fd)) THEN st
      ELSE IF HasReader(p)
        THEN [st EXCEPT !.pipes[p].data = @ \o input,
                        !.pipes[p].written = @ \o input,
                        !.sent = @ + 1]
        ELSE IF win32 THEN st
        ELSE [st EXCEPT !.sigpiped = ~sigpipe_ignored]

\* ----------------------------------------------------------- processLine
\* processLine with overwriteConfirmed set outside the prompt test
processLineConfirmAlways(line, st) ==
  LET s1 == [st EXCEPT !.output_buffer = @ \o line \o <<NL>>,
                       !.classified = Append(@, line)]
      s2 == IF detectOverwritePrompt(line)
              THEN [s1 EXCEPT !.result.overwritePrompted = TRUE]
              ELSE s1
      s2b == IF auto_overwrite_
               THEN sendInput(YES_TOKEN, [s2 EXCEPT !.result.overwriteConfirmed = TRUE])
               ELSE s2
      s3 == IF detectError(line)
              THEN [s2b EXCEPT !.last_error = line, !.result.error = line]
              ELSE s2b
      s4 == IF detectSuccess(line)
              THEN [s3 EXCEPT !.result.success = TRUE]
              ELSE s3
  IN  IF s2b.sigpiped THEN s2b ELSE s4

\* processLine answering only the first prompt of an execution
processLineOnce(line, st) ==
  LET s1 == [st EXCEPT !.output_buffer = @ \o line \o <<NL>>,
                       !.classified = Append(@, line)]
      s2 == IF detectOverwritePrompt(line)
              THEN LET p1 == [s1 EXCEPT !.result.overwritePrompted = TRUE]
                   IN  IF auto_overwrite_ /\ ~s1.result.overwriteConfirmed
                         THEN sendInput(YES_TOKEN,
                                [p1 EXCEPT !.result.overwriteConfirmed = TRUE])
                         ELSE p1
              ELSE s1
      s3 == IF detectError(line)
              THEN [s2 EXCEPT !.last_error = line, !.result.error = line]
              ELSE s2
      s4 == IF detectSuccess(line)
              THEN [s3 EXCEPT !.result.success = TRUE]
              ELSE s3
  IN  IF s2.sigpiped THEN s2 ELSE s4

\* processLine answering a prompt whatever auto_overwrite_ says
processLineIgnoresAuto(line, st) ==
  LET s1 == [st EXCEPT !.output_buffer = @ \o line \o <<NL>>,
                       !.classified = Append(@, line)]
      s2 == IF detectOverwritePrompt(line)
              THEN sendInput(YES_TOKEN,
                     [s1 EXCEPT !.result.overwritePrompted = TRUE,
                                !.result.overwriteConfirmed = TRUE])
              ELSE s1
      s3 == IF detectError(line)
              THEN [s2 EXCEPT !.last_error = line, !.result.error = line]
              ELSE s2
      s4 == IF detectSuccess(line)
              THEN [s3 EXCEPT !.result.success = TRUE]
              ELSE s3
  IN  IF s2.sigpiped THEN s2 ELSE s4

\* processLine keeping only the last line in the transcript buffer
processLineKeepsLastLine(line, st) ==
  LET s1 == [st EXCEPT !.output_buffer = line \o <<NL>>,
                       !.classified = Append(@, line)]
      s2 == IF detectOverwritePrompt(line)
              THEN LET p1 == [s1 EXCEPT !.result.overwritePrompted = TRUE]
                   IN  IF auto_overwrite_
                         THEN sendInput(YES_TOKEN,
                                [p1 EXCEPT !.result.overwriteConfirmed = TRUE])
                         ELSE p1
              ELSE s1
      s3 == IF detectError(line)
              THEN [s2 EXCEPT !.last_error = line, !.result.error = line]
              ELSE s2
      s4 == IF detectSuccess(line)
              THEN [s3 EXCEPT !.result.success = TRUE]
              ELSE s3
  IN  IF s2.sigpiped THEN s2 ELSE s4

\* processLine with the three tests as alternatives
processLineFirstMatchOnly(line, st) ==
  LET s1 == [st EXCEPT !.output_buffer = @ \o line \o <<NL>>,
                       !.classified = Append(@, line)]
  IN  IF detectOverwritePrompt(line)
        THEN LET p1 == [s1 EXCEPT !.result.overwritePrompted = TRUE]
             IN  IF auto_overwrite_
                   THEN sendInput(YES_TOKEN,
                          [p1 EXCEPT !.result.overwriteConfirmed = TRUE])
                   ELSE p1
      ELSE IF detectError(line)
        THEN [s1 EXCEPT !.last_error = line, !.result.error = line]
      ELSE IF detectSuccess(line)
        THEN [s1 EXCEPT !.result.success = TRUE]
      ELSE s1

\* processLine whose error test takes success back
processLineErrorClearsSuccess(line, st) ==
  LET s1 == [st EXCEPT !.output_buffer = @ \o line \o <<NL>>,
                       !.classified = Append(@, line)]
      s2 == IF detectOverwritePrompt(line)
              THEN LET p1 == [s1 EXCEPT !.result.overwritePrompted = TRUE]
                   IN  IF auto_overwrite_
                         THEN sendInput(YES_TOKEN,
                                [p1 EXCEPT !.result.overwriteConfirmed = TRUE])
                         ELSE p1
              ELSE s1
      s3 == IF detectError(line)
              THEN [s2 EXCEPT !.last_error = line, !.result.error = line,
                              !.result.success = FALSE]
              ELSE s2
      s4 == IF detectSuccess(line)
              THEN [s3 EXCEPT !.result.success = TRUE]
              ELSE s3
  IN  IF s2.sigpiped THEN s2 ELSE s4

\* lines 248-274
processLine(line, st) ==
  LET s1 == [st EXCEPT !.output_buffer = @ \o line \o <<NL>>,
                       !.classified = Append(@, line)]
      s2 == IF detectOverwritePrompt(line)
              THEN LET p1 == [s1 EXCEPT !.result.overwritePrompted = TRUE]
                   IN  IF auto_overwrite_
                         THEN sendInput(YES_TOKEN,
                                [p1 EXCEPT !.result.overwriteConfirmed = TRUE])
                         ELSE p1
              ELSE s1
      s3 == IF detectError(line)
              THEN [s2 EXCEPT !.last_error = line, !.result.error = line]
              ELSE s2
      s4 == IF detectSuccess(line)
              THEN [s3 EXCEPT !.result.success = TRUE]
              ELSE s3
  IN  IF s2.sigpiped THEN s2 ELSE s4

\* ---------------------------------------------------------- processOutput
RECURSIVE SplitLoop(_, _, _)
SplitLoop(full_output, start_pos, st) ==
  LET newline_pos == find(full_output, <<NL>>, start_pos)
  IN  IF newline_pos = npos \/ st.sigpiped
        THEN [st EXCEPT !.remaining = substr(full_output, start_pos)]
        ELSE LET raw == substr2(full_output, start_pos, newline_pos - start_pos)
                 line == IF raw # <<>> /\ raw[Len(raw)] = CR
                           THEN SubSeq(raw, 1, Len(raw) - 1)
                           ELSE raw
             IN  SplitLoop(full_output, newline_pos + 1, processLine(line, st))

\* processOutput that forgets the carry-over of the previous call
processOutputNoCarry(output, st) == SplitLoop(output, 0, st)

\* lines 582-602
processOutput(output, st) == SplitLoop(st.remaining \o output, 0, st)

\* the worker's view of what processOutput and processLine read and write
WorkerState(t) ==
  [result |-> result[t], remaining |-> remaining_output[t],
   output_buffer |-> output_buffer_, last_error |-> last_error_,
   pipes |-> pipes, classified |-> hist[t].classified,
   sent |-> hist[t].sent, sigpiped |-> FALSE]

\* store a worker step's outcome
Commit(t, st) ==
  /\ result' = [result EXCEPT ![t] = st.result]
  /\ remaining_output' = [remaining_output EXCEPT ![t] = st.remaining]
  /\ output_buffer_' = st.output_buffer
  /\ last_error_' = st.last_error
  /\ pipes' = st.pipes
  /\ hist' = [hist EXCEPT ![t].classified = st.classified, ![t].sent = st.sent]
  /\ proc_alive' = ~st.sigpiped

\* ------------------------------------------------------- the child process
\* What `sh -c command` does is outside the program: a child is a script of
\* write(2) calls on its stdout/stderr and of blocking reads of one line of
\* its stdin, followed by exit(code).
Out(data) == [op |-> "out", data |-> data]
In == [op |-> "in", data |-> <<>>]

L_Prompt == <<"F", "i", "l", "e", " ", "'", "o", "u", "t", ".", "m", "p", "4", "'", " ", "a", "l", "r", "e", "a", "d", "y", " ", "e", "x", "i", "s", "t", "s", ".", " ", "O", "v", "e", "r", "w", "r", "i", "t", "e", "?", " ", "[", "y", "/", "N", "]">>
L_PromptShort == <<"O", "v", "e", "r", "w", "r", "i", "t", "e", "?", " ", "(", "y", "/", "n", ")">>
L_Error == <<"E", "r", "r", "o", "r", ":", " ", "I", "n", "v", "a", "l", "i", "d", " ", "a", "r", "g", "u", "m", "e", "n", "t">>
L_Frame == <<"f", "r", "a", "m", "e", "=", "1">>
L_Mux == <<"m", "u", "x", "i", "n", "g", " ", "o", "v", "e", "r", "h", "e", "a", "d", ":", " ", "1", "%">>

Scripts ==
  { \* one CRLF-terminated line that matches nothing
    <<Out(L_Frame \o <<CR, NL>>)>>,
    \* the overwrite prompt, a wait for the answer, then the success line
    <<Out(L_Prompt \o <<NL>>), In, Out(L_Mux \o <<NL>>)>>,
    \* two prompts in one write, no wait for an answer
    <<Out(L_Prompt \o <<NL>> \o L_PromptShort \o <<NL>>)>>,
    \* an error line cut in two writes, then a line that matches nothing
    <<Out(SubSeq(L_Error, 1, 10)),
      Out(SubSeq(L_Error, 11, Len(L_Error)) \o <<NL>> \o L_Frame \o <<NL>>)>> }

\* a command that writes a NUL byte inside a line (binary data on stdout)
BinaryScripts ==
  {<<Out(<<"a", NUL, "b", NL>>), Out(L_Frame \o <<NL>>)>>}

\* a line that matches the prompt test, the error test and the success test
L_PromptErrorMux == <<"O", "v", "e", "r", "w", "r", "i", "t", "e", "?", " ", "e", "r", "r", "o", "r", " ", "m", "u", "x", "i", "n", "g", " ", "o", "v", "e", "r", "h", "e", "a", "d">>

\* commands whose output holds a line matching all three tests, with another
\* line in the same write or in an earlier one
OrderScripts ==
  {<<Out(L_PromptErrorMux \o <<NL>> \o L_Frame \o <<NL>>)>>,
   <<Out(L_Error \o <<NL>>), Out(L_PromptErrorMux \o <<NL>>)>>}

\* commands that print a success line and an error line, in either order
StickyScripts ==
  {<<Out(L_Mux \o <<NL>>), Out(L_Error \o <<NL>>)>>,
   <<Out(L_Error \o <<NL>>), Out(L_Mux \o <<NL>>)>>}

\* a command that prints an error line and then another line
ReadErrorScripts ==
  {<<Out(L_Error \o <<NL>>), Out(L_Frame \o <<NL>>)>>}

\* a command whose output sets every field of the result, and a quiet one
TwiceScripts ==
  {<<Out(L_Prompt \o <<NL>>), In, Out(L_Error \o <<NL>>), Out(L_Mux \o <<NL>>)>>,
   <<Out(L_Frame \o <<CR, NL>>)>>}

\* a command that asks as ffmpeg does, the cursor left after the question
\* with no newline, and one that ends the question with a newline; both wait
\* for the answer and then finish
PromptScripts ==
  {<<Out(L_Prompt \o <<" ">>), In, Out(L_Mux \o <<NL>>)>>,
   <<Out(L_Prompt \o <<NL>>), In, Out(L_Mux \o <<NL>>)>>}

\* commands whose output ends without a newline: an error message after a
\* success line, in a write of its own or in the write of the line before
TailScripts ==
  {<<Out(L_Mux \o <<NL>>), Out(L_Error)>>,
   <<Out(L_Frame \o <<CR, NL>> \o L_Error)>>}

\* the commands run when several threads call execute()
ConcScripts == {<<Out(L_Frame \o <<CR, NL>>)>>}

ExitCodes == {0, 1}

\* lines for the classification harness
L_Unable == <<"U", "n", "a", "b", "l", "e", " ", "t", "o", " ", "o", "p", "e", "n">>
L_Cannot == <<"c", "a", "n", "n", "o", "t", " ", "o", "p", "e", "n">>
L_NotFound == <<"x", ":", " ", "N", "o", "t", " ", "F", "o", "u", "n", "d">>
L_Permission == <<"P", "e", "r", "m", "i", "s", "s", "i", "o", "n", " ", "d", "e", "n", "i", "e", "d">>
L_Access == <<"A", "C", "C", "E", "S", "S", " ", "D", "E", "N", "I", "E", "D">>
L_Failed == <<"C", "o", "n", "v", "e", "r", "s", "i", "o", "n", " ", "F", "A", "I", "L", "E", "D">>
L_NonMono == <<"N", "o", "n", "-", "m", "o", "n", "o", "t", "o", "n", "o", "u", "s", " ", "D", "T", "S">>
L_NonMonoLower == <<"n", "o", "n", "-", "m", "o", "n", "o", "t", "o", "n", "o", "u", "s", " ", "D", "T", "S">>
L_NonMonoError == <<"E", "r", "r", "o", "r", ":", " ", "N", "o", "n", "-", "M", "o", "n", "o", "t", "o", "n", "o", "u", "s", " ", "D", "T", "S">>
L_Unknown == <<"U", "n", "k", "n", "o", "w", "n", " ", "e", "n", "c", "o", "d", "e", "r">>
L_NonMonoUnknown == <<"U", "N", "K", "N", "O", "W", "N", ":", " ", "N", "O", "N", "-", "M", "O", "N", "O", "T", "O", "N", "O", "U", "S", " ", "d", "t", "s">>

\* lines around the overwrite-prompt test and the success test
L_PromptYN == <<"O", "V", "E", "R", "W", "R", "I", "T", "E", " ", "(", "Y", "/", "N", ")">>
L_ExistsOverwrite == <<"A", "l", "r", "e", "a", "d", "y", " ", "E", "x", "i", "s", "t", "s", ",", " ", "w", "i", "l", "l", " ", "o", "v", "e", "r", "w", "r", "i", "t", "e">>
L_ExistsOnly == <<"f", "i", "l", "e", " ", "a", "l", "r", "e", "a", "d", "y", " ", "e", "x", "i", "s", "t", "s">>
L_OverwriteOnly == <<"O", "v", "e", "r", "w", "r", "i", "t", "e", " ", "d", "i", "s", "a", "b", "l", "e", "d">>
L_Streams == <<"V", "i", "d", "e", "o", ":", "1", "k", "B", " ", "A", "u", "d", "i", "o", ":", "2", "k", "B", " ", "S", "u", "b", "t", "i", "t", "l", "e", ":", "0", "k", "B">>
L_TwoStreams == <<"v", "i", "d", "e", "o", ":", "1", "k", "B", " ", "a", "u", "d", "i", "o", ":", "2", "k", "B">>
L_SubtitleOnly == <<"s", "u", "b", "t", "i", "t", "l", "e", ":", "0", "k", "B">>
L_MuxUpper == <<"M", "U", "X", "I", "N", "G", " ", "O", "V", "E", "R", "H", "E", "A", "D", ":", " ", "1", "%">>
L_PromptCN == CN_EXISTS \o <<",">> \o CN_OVERWRITE \o <<"?">>
L_OverwriteCN == <<"o", "u", "t", " ">> \o CN_OVERWRITE

TestLines ==
  {<<>>, L_Frame, L_Error, L_Failed, L_Unable, L_Cannot, L_Unknown, L_NotFound,
   L_Permission, L_Access, L_NonMono, L_NonMonoLower, L_NonMonoError,
   L_NonMonoUnknown, L_Prompt, L_Mux, L_PromptYN, L_ExistsOverwrite,
   L_ExistsOnly, L_OverwriteOnly, L_PromptCN, L_OverwriteCN, L_Streams,
   L_TwoStreams, L_SubtitleOnly, L_MuxUpper}

\* ------------------------------------------------------------ execute()
\* execute() clearing the transcript buffer before it tests the flag
ExecCheckClearsFirst(t) ==
  /\ proc_alive
  /\ pc[t] = "idle"
  /\ calls[t] < MaxCalls
  /\ output_buffer_' = <<>>
  /\ IF is_running_
       THEN /\ result' = [result EXCEPT ![t] =
                            [NewResult EXCEPT !.error = ERR_ALREADY_RUNNING]]
            /\ calls' = [calls EXCEPT ![t] = @ + 1]
            /\ UNCHANGED <<pc, hist>>
       ELSE /\ result' = [result EXCEPT ![t] = NewResult]
            /\ pc' = [pc EXCEPT ![t] = "accepted"]
            /\ hist' = [hist EXCEPT ![t] = NewHist]
            /\ UNCHANGED calls
  /\ UNCHANGED <<remaining_output, is_running_, auto_overwrite_, last_error_,
                 stdout_pipe_, stdin_pipe_, child_pid_, os, stops, kills,
                 bad_closes, harness, windows>>

\* lines 69-79: the result is initialised and the running flag is read; a call
\* that finds it set returns at once. The caller makes at most limit calls.
ExecCheckUpTo(t, limit) ==
  /\ proc_alive
  /\ pc[t] = "idle"
  /\ calls[t] < limit
  /\ IF is_running_
       THEN /\ result' = [result EXCEPT ![t] =
                            [NewResult EXCEPT !.error = ERR_ALREADY_RUNNING]]
            /\ calls' = [calls EXCEPT ![t] = @ + 1]
            /\ UNCHANGED <<pc, hist>>
       ELSE /\ result' = [result EXCEPT ![t] = NewResult]
            /\ pc' = [pc EXCEPT ![t] = "accepted"]
            /\ hist' = [hist EXCEPT ![t] = NewHist]
            /\ UNCHANGED calls
  /\ UNCHANGED <<remaining_output, members, os, stops, kills, bad_closes, harness, windows>>

ExecCheck(t) == ExecCheckUpTo(t, MaxCalls)

\* the start of an accepted call without the clearing of the transcript
ExecBeginKeepsTranscript(t) ==
  /\ proc_alive
  /\ pc[t] = "accepted"
  /\ is_running_' = TRUE
  /\ remaining_output' = [remaining_output EXCEPT ![t] = <<>>]
  /\ hist' = [hist EXCEPT ![t].auto_on = auto_overwrite_]
  /\ pc' = [pc EXCEPT ![t] = "pipe_out"]
  /\ UNCHANGED <<result, auto_overwrite_, output_buffer_, last_error_, stdout_pipe_,
                 stdin_pipe_, child_pid_, os, calls, stops, kills, bad_closes,
                 harness, windows>>

\* the start of an accepted call that also clears the last error message
ExecBeginClearsLastError(t) ==
  /\ proc_alive
  /\ pc[t] = "accepted"
  /\ is_running_' = TRUE
  /\ output_buffer_' = <<>>
  /\ last_error_' = <<>>
  /\ remaining_output' = [remaining_output EXCEPT ![t] = <<>>]
  /\ hist' = [hist EXCEPT ![t].auto_on = auto_overwrite_]
  /\ pc' = [pc EXCEPT ![t] = "pipe_out"]
  /\ UNCHANGED <<result, auto_overwrite_, stdout_pipe_, stdin_pipe_,
                 child_pid_, os, calls, stops, kills, bad_closes, harness, windows>>

\* lines 81-85: the flag is set, the transcript buffer cleared, the worker
\* thread started (std::string remaining_output is local to the worker)
ExecBegin(t) ==
  /\ proc_alive
  /\ pc[t] = "accepted"
  /\ is_running_' = TRUE
  /\ output_buffer_' = <<>>
  /\ remaining_output' = [remaining_output EXCEPT ![t] = <<>>]
  /\ hist' = [hist EXCEPT ![t].auto_on = auto_overwrite_]
  /\ pc' = [pc EXCEPT ![t] = "pipe_out"]
  /\ UNCHANGED <<result, auto_overwrite_, last_error_, stdout_pipe_, stdin_pipe_,
                 child_pid_, os, calls, stops, kills, bad_closes, harness, windows>>

\* pipe(stdout_pipe_) whose failure is recorded and then passed over
PipeOutFailureContinues(t) ==
  /\ proc_alive
  /\ pc[t] = "pipe_out"
  /\ \E ok \in BOOLEAN :
       IF ok
         THEN LET p == Len(pipes) + 1
              IN  /\ pipes' = Append(pipes, NewPipe)
                  /\ open_fds' = open_fds \cup {ReadFd(p), WriteFd(p)}
                  /\ stdout_pipe_' = [i \in 0..1 |-> IF i = 0 THEN ReadFd(p) ELSE WriteFd(p)]
                  /\ hist' = [hist EXCEPT ![t].cap = p]
                  /\ pc' = [pc EXCEPT ![t] = "pipe_in"]
                  /\ UNCHANGED <<result, is_running_>>
         ELSE /\ result' = [result EXCEPT ![t].error = ERR_STDOUT_PIPE]
              /\ pc' = [pc EXCEPT ![t] = "pipe_in"]
              /\ UNCHANGED <<pipes, open_fds, stdout_pipe_, hist, is_running_>>
  /\ UNCHANGED <<remaining_output, auto_overwrite_, output_buffer_, last_error_,
                 stdin_pipe_, child_pid_, children, sigpipe_ignored, proc_alive,
                 calls, stops, kills, bad_closes, harness, windows>>

\* lines 442-446: pipe(stdout_pipe_)
PipeOut(t) ==
  /\ proc_alive
  /\ pc[t] = "pipe_out"
  /\ \E ok \in BOOLEAN :
       IF ok
         THEN LET p == Len(pipes) + 1
              IN  /\ pipes' = Append(pipes, NewPipe)
                  /\ open_fds' = open_fds \cup {ReadFd(p), WriteFd(p)}
                  /\ stdout_pipe_' = [i \in 0..1 |-> IF i = 0 THEN ReadFd(p) ELSE WriteFd(p)]
                  /\ hist' = [hist EXCEPT ![t].cap = p]
                  /\ pc' = [pc EXCEPT ![t] = "pipe_in"]
                  /\ UNCHANGED <<result, is_running_>>
         ELSE /\ result' = [result EXCEPT ![t].error = ERR_STDOUT_PIPE]
              /\ is_running_' = FALSE
              /\ pc' = [pc EXCEPT ![t] = "join"]
              /\ UNCHANGED <<pipes, open_fds, stdout_pipe_, hist>>
  /\ UNCHANGED <<remaining_output, auto_overwrite_, output_buffer_, last_error_,
                 stdin_pipe_, child_pid_, children, sigpipe_ignored, proc_alive,
                 calls, stops, kills, bad_closes, harness, windows>>

\* lines 449-455: pipe(stdin_pipe_); on failure both ends of the capture pipe
\* are closed and the member keeps their numbers
PipeIn(t) ==
  /\ proc_alive
  /\ pc[t] = "pipe_in"
  /\ \E ok \in BOOLEAN :
       IF ok
         THEN LET p == Len(pipes) + 1
              IN  /\ pipes' = Append(pipes, NewPipe)
                  /\ open_fds' = open_fds \cup {ReadFd(p), WriteFd(p)}
                  /\ stdin_pipe_' = [i \in 0..1 |-> IF i = 0 THEN ReadFd(p) ELSE WriteFd(p)]
                  /\ hist' = [hist EXCEPT ![t].feed = p]
                  /\ pc' = [pc EXCEPT ![t] = "fork"]
                  /\ UNCHANGED <<result, is_running_, bad_closes>>
         ELSE /\ result' = [result EXCEPT ![t].error = ERR_STDIN_PIPE]
              /\ open_fds' = close(close(open_fds, stdout_pipe_[0]), stdout_pipe_[1])
              /\ bad_closes' = bad_closes + BadClose(open_fds, stdout_pipe_[0])
                                 + BadClose(close(open_fds, stdout_pipe_[0]), stdout_pipe_[1])
              /\ is_running_' = FALSE
              /\ pc' = [pc EXCEPT ![t] = "join"]
              /\ UNCHANGED <<pipes, stdin_pipe_, hist>>
  /\ UNCHANGED <<remaining_output, auto_overwrite_, output_buffer_, last_error_,
                 stdout_pipe_, child_pid_, children, sigpipe_ignored, proc_alive,
                 calls, stops, kills, harness, windows>>

\* lines 556-573: every member descriptor that is not -1 is closed and reset
CloseIfSet(acc, fd) ==
  IF fd # NoFd
    THEN [fds |-> close(acc.fds, fd), bad |-> acc.bad + BadClose(acc.fds, fd)]
    ELSE acc

cleanupUnixPipes(fds) ==
  CloseIfSet(CloseIfSet(CloseIfSet(CloseIfSet([fds |-> fds, bad |-> 0],
    stdout_pipe_[0]), stdout_pipe_[1]), stdin_pipe_[0]), stdin_pipe_[1])

ClosedPair == [i \in 0..1 |-> NoFd]

\* lines 458-495: fork(). The child keeps the capture pipe's write end as its
\* stdout/stderr and the feed pipe's read end as its stdin; the parent closes
\* its copies of these two ends and leaves the members as they are.
Fork(t, scripts) ==
  /\ proc_alive
  /\ pc[t] = "fork"
  /\ \/ \* fork() == -1
        LET c == cleanupUnixPipes(open_fds)
        IN  /\ child_pid_' = NoPid
            /\ result' = [result EXCEPT ![t].error = ERR_FORK]
            /\ open_fds' = c.fds
            /\ bad_closes' = bad_closes + c.bad
            /\ stdout_pipe_' = ClosedPair
            /\ stdin_pipe_' = ClosedPair
            /\ is_running_' = FALSE
            /\ pc' = [pc EXCEPT ![t] = "join"]
            /\ UNCHANGED <<children, hist>>
     \/ \E script \in scripts, code \in ExitCodes :
          LET pid == Len(children) + 1
              wfd == stdout_pipe_[1]
              rfd == stdin_pipe_[0]
              fds1 == close(open_fds, wfd)
          IN  /\ children' = Append(children,
                   [state |-> "running", script |-> script, code |-> code,
                    out |-> IF wfd \in open_fds THEN PipeOf(wfd) ELSE 0,
                    inp |-> IF rfd \in open_fds THEN PipeOf(rfd) ELSE 0,
                    sig |-> "none"])
              /\ child_pid_' = pid
              /\ open_fds' = close(fds1, rfd)
              /\ bad_closes' = bad_closes + BadClose(open_fds, wfd) + BadClose(fds1, rfd)
              /\ hist' = [hist EXCEPT ![t].child = pid]
              /\ pc' = [pc EXCEPT ![t] = "poll"]
              /\ UNCHANGED <<result, stdout_pipe_, stdin_pipe_, is_running_>>
  /\ UNCHANGED <<remaining_output, auto_overwrite_, output_buffer_, last_error_,
                 pipes, sigpipe_ignored, proc_alive, calls, stops, kills, harness, windows>>

\* waitpid that reports the end by a signal as an exit with status 128 + 15
waitpidSignalAsExit(pid) ==
  IF pid \in 1..Len(children) /\ children[pid].state = "running"
    THEN [wait_result |-> 0, exited |-> FALSE, code |-> 0]
  ELSE IF pid \in 1..Len(children) /\ children[pid].state = "exited"
    THEN [wait_result |-> pid, exited |-> TRUE, code |-> children[pid].code]
  ELSE IF pid \in 1..Len(children) /\ children[pid].state = "signaled"
    THEN [wait_result |-> pid, exited |-> TRUE, code |-> 143]
  ELSE [wait_result |-> -1, exited |-> TRUE, code |-> 0]

\* waitpid that reports every ended child as exit(0)
waitpidDropsStatus(pid) ==
  IF pid \in 1..Len(children) /\ children[pid].state = "running"
    THEN [wait_result |-> 0, exited |-> FALSE, code |-> 0]
  ELSE IF pid \in 1..Len(children) /\ children[pid].state \in {"exited", "signaled"}
    THEN [wait_result |-> pid, exited |-> TRUE, code |-> 0]
  ELSE [wait_result |-> -1, exited |-> TRUE, code |-> 0]

\* waitpid(child_pid_, &status, WNOHANG) with status preset to 0: what the
\* loop sees. A pid that is no child of the process, or one already waited
\* for, gives -1 (ECHILD) and leaves status 0, which WIFEXITED reads as exit(0).
waitpid(pid) ==
  IF pid \in 1..Len(children) /\ children[pid].state = "running"
    THEN [wait_result |-> 0, exited |-> FALSE, code |-> 0]
  ELSE IF pid \in 1..Len(children) /\ children[pid].state = "exited"
    THEN [wait_result |-> pid, exited |-> TRUE, code |-> children[pid].code]
  ELSE IF pid \in 1..Len(children) /\ children[pid].state = "signaled"
    THEN [wait_result |-> pid, exited |-> FALSE, code |-> 0]
  ELSE [wait_result |-> -1, exited |-> TRUE, code |-> 0]

\* the exit poll of a loop that gives up as soon as the child is found
\* still running
PollGivesUp(t) ==
  /\ proc_alive
  /\ pc[t] = "poll"
  /\ pc' = [pc EXCEPT ![t] = "drain"]
  /\ UNCHANGED <<result, remaining_output, members, os, hist, calls, stops, kills,
                 bad_closes, harness, windows>>

\* the exit poll without the exit-code tie-break of lines 512-514
PollNoTieBreak(t) ==
  /\ proc_alive
  /\ pc[t] = "poll"
  /\ IF ~is_running_
       THEN /\ pc' = [pc EXCEPT ![t] = "drain"]
            /\ UNCHANGED <<result, children, hist>>
       ELSE LET w == waitpid(child_pid_)
            IN  IF w.wait_result = 0
                  THEN /\ pc' = [pc EXCEPT ![t] = "read"]
                       /\ UNCHANGED <<result, children, hist>>
                  ELSE /\ result' = [result EXCEPT ![t].exitCode =
                                       IF w.exited THEN w.code ELSE -1]
                       /\ children' = IF w.wait_result > 0
                                        THEN [children EXCEPT ![child_pid_].state = "reaped"]
                                        ELSE children
                       /\ hist' = [hist EXCEPT ![t].observed = w]
                       /\ pc' = [pc EXCEPT ![t] = "drain"]
  /\ UNCHANGED <<remaining_output, members, open_fds, pipes, sigpipe_ignored,
                 proc_alive, calls, stops, kills, bad_closes, harness, windows>>

\* lines 502-519: the loop test and the exit poll
Poll(t) ==
  /\ proc_alive
  /\ pc[t] = "poll"
  /\ IF ~is_running_
       THEN /\ pc' = [pc EXCEPT ![t] = "drain"]
            /\ UNCHANGED <<result, children, hist>>
       ELSE LET w == waitpid(child_pid_)
            IN  IF w.wait_result = 0
                  THEN /\ pc' = [pc EXCEPT ![t] = "read"]
                       /\ UNCHANGED <<result, children, hist>>
                  ELSE /\ result' = [result EXCEPT ![t] =
                            IF w.exited
                              THEN [@ EXCEPT !.exitCode = w.code,
                                             !.success = @ \/ w.code = 0]
                              ELSE [@ EXCEPT !.exitCode = -1]]
                       /\ children' = IF w.wait_result > 0
                                        THEN [children EXCEPT ![child_pid_].state = "reaped"]
                                        ELSE children
                       /\ hist' = [hist EXCEPT ![t].observed = w]
                       /\ pc' = [pc EXCEPT ![t] = "drain"]
  /\ UNCHANGED <<remaining_output, members, open_fds, pipes, sigpipe_ignored,
                 proc_alive, calls, stops, kills, bad_closes, harness, windows>>

\* read(fd, buffer, sizeof(buffer) - 1) on a non-blocking descriptor
sys_read(fd) ==
  IF ~(fd \in open_fds /\ IsPipeFd(fd) /\ IsReadEnd(fd))
    THEN [ret |-> -1, again |-> FALSE, data |-> <<>>]
    ELSE LET p == PipeOf(fd)
             n == IF Len(pipes[p].data) < BUF_SIZE - 1
                    THEN Len(pipes[p].data) ELSE BUF_SIZE - 1
         IN  IF n > 0 THEN [ret |-> n, again |-> FALSE, data |-> substr2(pipes[p].data, 0, n)]
             ELSE IF HasWriter(p) THEN [ret |-> -1, again |-> TRUE, data |-> <<>>]
             ELSE [ret |-> 0, again |-> FALSE, data |-> <<>>]

\* the bytes read are taken out of the pipe, buffer[bytes_read] = '\0', and
\* processOutput(buffer, remaining_output, result)
Consume(t, r) ==
  LET p == PipeOf(stdout_pipe_[0])
      st == [WorkerState(t) EXCEPT !.pipes[p].data = substr(@, r.ret)]
  IN  Commit(t, processOutput(c_str(r.data), st))

\* one read of the loop, a read of zero bytes ending the loop
ReadEndsLoopOnEof(t) ==
  /\ proc_alive
  /\ pc[t] = "read"
  /\ LET r == sys_read(stdout_pipe_[0])
     IN  IF r.ret > 0
           THEN /\ Consume(t, r)
                /\ pc' = [pc EXCEPT ![t] = "poll"]
           ELSE /\ pc' = [pc EXCEPT ![t] = IF r.ret <= 0 /\ ~r.again THEN "drain" ELSE "poll"]
                /\ UNCHANGED <<result, remaining_output, output_buffer_, last_error_,
                               pipes, hist, proc_alive>>
  /\ UNCHANGED <<is_running_, auto_overwrite_, stdout_pipe_, stdin_pipe_, child_pid_,
                 open_fds, children, sigpipe_ignored, calls, stops, kills,
                 bad_closes, harness, windows>>

\* lines 521-533: one read of the loop
Read(t) ==
  /\ proc_alive
  /\ pc[t] = "read"
  /\ LET r == sys_read(stdout_pipe_[0])
     IN  IF r.ret > 0
           THEN /\ Consume(t, r)
                /\ pc' = [pc EXCEPT ![t] = "poll"]
           ELSE /\ pc' = [pc EXCEPT ![t] = IF r.ret < 0 /\ ~r.again THEN "drain" ELSE "poll"]
                /\ UNCHANGED <<result, remaining_output, output_buffer_, last_error_,
                               pipes, hist, proc_alive>>
  /\ UNCHANGED <<is_running_, auto_overwrite_, stdout_pipe_, stdin_pipe_, child_pid_,
                 open_fds, children, sigpipe_ignored, calls, stops, kills,
                 bad_closes, harness, windows>>

\* lines 527-530: a read of the loop fails with an error other than EAGAIN or
\* EWOULDBLOCK (EINTR, EIO, ...): the loop is left
ReadError(t) ==
  /\ proc_alive
  /\ pc[t] = "read"
  /\ pc' = [pc EXCEPT ![t] = "drain"]
  /\ hist' = [hist EXCEPT ![t].read_error = TRUE]
  /\ UNCHANGED <<result, remaining_output, members, os, calls, stops, kills,
                 bad_closes, harness, windows>>

\* lines 536-540: the final drain, one read per step, until a read returns <= 0
Drain(t) ==
  /\ proc_alive
  /\ pc[t] = "drain"
  /\ LET r == sys_read(stdout_pipe_[0])
     IN  IF r.ret > 0
           THEN /\ Consume(t, r)
                /\ UNCHANGED pc
           ELSE /\ pc' = [pc EXCEPT ![t] = "cleanup"]
                /\ UNCHANGED <<result, remaining_output, output_buffer_, last_error_,
                               pipes, hist, proc_alive>>
  /\ UNCHANGED <<is_running_, auto_overwrite_, stdout_pipe_, stdin_pipe_, child_pid_,
                 open_fds, children, sigpipe_ignored, calls, stops, kills,
                 bad_closes, harness, windows>>

\* the cleanup of a worker that hands what is left in the carry-over to the
\* transcript as a last line
CleanupFlushesCarry(t) ==
  /\ proc_alive
  /\ pc[t] = "cleanup"
  /\ LET c == cleanupUnixPipes(open_fds)
     IN  /\ open_fds' = c.fds
         /\ bad_closes' = bad_closes + c.bad
  /\ stdout_pipe_' = ClosedPair
  /\ stdin_pipe_' = ClosedPair
  /\ result' = [result EXCEPT ![t].output = output_buffer_ \o remaining_output[t]]
  /\ pc' = [pc EXCEPT ![t] = "join"]
  /\ UNCHANGED <<remaining_output, is_running_, auto_overwrite_, output_buffer_,
                 last_error_, child_pid_, pipes, children, sigpipe_ignored,
                 proc_alive, hist, calls, stops, kills, harness, windows>>

\* lines 542-549: cleanupUnixPipes() and result.output = output_buffer_
Cleanup(t) ==
  /\ proc_alive
  /\ pc[t] = "cleanup"
  /\ LET c == cleanupUnixPipes(open_fds)
     IN  /\ open_fds' = c.fds
         /\ bad_closes' = bad_closes + c.bad
  /\ stdout_pipe_' = ClosedPair
  /\ stdin_pipe_' = ClosedPair
  /\ result' = [result EXCEPT ![t].output = output_buffer_]
  /\ pc' = [pc EXCEPT ![t] = "join"]
  /\ UNCHANGED <<remaining_output, is_running_, auto_overwrite_, output_buffer_,
                 last_error_, child_pid_, pipes, children, sigpipe_ignored,
                 proc_alive, hist, calls, stops, kills, harness, windows>>

\* the return of execute() without the clearing of the flag
ReturnKeepsFlag(t) ==
  /\ proc_alive
  /\ pc[t] = "join"
  /\ pc' = [pc EXCEPT ![t] = "idle"]
  /\ calls' = [calls EXCEPT ![t] = @ + 1]
  /\ UNCHANGED <<result, remaining_output, members, os, hist, stops, kills,
                 bad_closes, harness, windows>>

\* lines 88-93: the worker is joined, the flag cleared, the result returned
Return(t) ==
  /\ proc_alive
  /\ pc[t] = "join"
  /\ is_running_' = FALSE
  /\ pc' = [pc EXCEPT ![t] = "idle"]
  /\ calls' = [calls EXCEPT ![t] = @ + 1]
  /\ UNCHANGED <<result, remaining_output, auto_overwrite_, output_buffer_,
                 last_error_, stdout_pipe_, stdin_pipe_, child_pid_, os, hist,
                 stops, kills, bad_closes, harness, windows>>

\* ------------------------------------------------- stop, setAutoOverwrite
\* lines 107-119: the flag is cleared and SIGTERM sent to child_pid_ when it
\* is positive; a running child is ended by the signal. In a Windows build
\* it is TerminateProcess(process_info_.hProcess, 0) when the handle is set:
\* a running child is ended with the exit code 0.
stop ==
  /\ proc_alive
  /\ stops < MaxStops
  /\ stops' = stops + 1
  /\ is_running_' = FALSE
  /\ IF win32
       THEN LET h == process_info_.hProcess
            IN  IF h # nullptr
                  THEN /\ kills' = Append(kills,
                               [pid |-> h,
                                state |-> IF h \in 1..Len(children)
                                            THEN children[h].state ELSE "none"])
                       /\ children' = IF Running(h)
                                        THEN [children EXCEPT ![h].state = "exited",
                                                              ![h].code = 0,
                                                              ![h].sig = "TerminateProcess"]
                                        ELSE children
                  ELSE UNCHANGED <<kills, children>>
     ELSE IF child_pid_ > 0
       THEN /\ kills' = Append(kills,
                    [pid |-> child_pid_,
                     state |-> IF child_pid_ \in 1..Len(children)
                                 THEN children[child_pid_].state ELSE "none"])
            /\ children' = IF Running(child_pid_)
                             THEN [children EXCEPT ![child_pid_].state = "signaled",
                                                   ![child_pid_].sig = "SIGTERM"]
                             ELSE children
       ELSE UNCHANGED <<kills, children>>
  /\ UNCHANGED <<pc, result, remaining_output, auto_overwrite_, output_buffer_,
                 last_error_, stdout_pipe_, stdin_pipe_, child_pid_, open_fds,
                 pipes, sigpipe_ignored, proc_alive, hist, calls, bad_closes, harness, windows>>

\* lines 125-127
getLastError == last_error_

\* lines 60-62
setAutoOverwrite(auto_overwrite) ==
  /\ proc_alive
  /\ auto_overwrite_ # auto_overwrite
  /\ auto_overwrite_' = auto_overwrite
  /\ hist' = [t \in Callers |->
                IF pc[t] \notin {"idle", "accepted"}
                  THEN [hist[t] EXCEPT !.auto_on = @ \/ auto_overwrite]
                  ELSE hist[t]]
  /\ UNCHANGED <<pc, result, remaining_output, is_running_, output_buffer_,
                 last_error_, stdout_pipe_, stdin_pipe_, child_pid_, os, calls,
                 stops, kills, bad_closes, harness, windows>>

\* ------------------------------------------------------ the Windows build
\* PROCESS_INFORMATION with no process in it (line 142)
NoProcess == [hProcess |-> nullptr, hThread |-> nullptr]

\* lines 410-435: every handle that is not nullptr is closed and reset
cleanupWindowsHandles(fds) ==
  fds \ {stdout_read_handle_, stdout_write_handle_, stdin_read_handle_,
         stdin_write_handle_}

HandlesReset ==
  /\ stdout_read_handle_' = nullptr
  /\ stdout_write_handle_' = nullptr
  /\ stdin_read_handle_' = nullptr
  /\ stdin_write_handle_' = nullptr
  /\ process_info_' = NoProcess

\* lines 313-317: CreatePipe for the child's stdout and stderr
CreateStdoutPipe(t) ==
  /\ proc_alive
  /\ win32
  /\ pc[t] = "pipe_out"
  /\ \E ok \in BOOLEAN :
       IF ok
         THEN LET p == Len(pipes) + 1
              IN  /\ pipes' = Append(pipes, NewPipe)
                  /\ open_fds' = open_fds \cup {ReadFd(p), WriteFd(p)}
                  /\ stdout_read_handle_' = ReadFd(p)
                  /\ stdout_write_handle_' = WriteFd(p)
                  /\ hist' = [hist EXCEPT ![t].cap = p]
                  /\ pc' = [pc EXCEPT ![t] = "pipe_in"]
                  /\ UNCHANGED <<result, is_running_>>
         ELSE /\ result' = [result EXCEPT ![t].error = ERR_STDOUT_PIPE]
              /\ is_running_' = FALSE
              /\ pc' = [pc EXCEPT ![t] = "join"]
              /\ UNCHANGED <<pipes, open_fds, stdout_read_handle_,
                             stdout_write_handle_, hist>>
  /\ UNCHANGED <<remaining_output, auto_overwrite_, output_buffer_, last_error_,
                 stdout_pipe_, stdin_pipe_, child_pid_, children, sigpipe_ignored,
                 proc_alive, calls, stops, kills, bad_closes, harness, win32,
                 stdin_read_handle_, stdin_write_handle_, process_info_>>

\* lines 320-325: CreatePipe for the child's stdin
CreateStdinPipe(t) ==
  /\ proc_alive
  /\ win32
  /\ pc[t] = "pipe_in"
  /\ \E ok \in BOOLEAN :
       IF ok
         THEN LET p == Len(pipes) + 1
              IN  /\ pipes' = Append(pipes, NewPipe)
                  /\ open_fds' = open_fds \cup {ReadFd(p), WriteFd(p)}
                  /\ stdin_read_handle_' = ReadFd(p)
                  /\ stdin_write_handle_' = WriteFd(p)
                  /\ hist' = [hist EXCEPT ![t].feed = p]
                  /\ pc' = [pc EXCEPT ![t] = "fork"]
                  /\ UNCHANGED <<result, is_running_, stdout_read_handle_,
                                 stdout_write_handle_, process_info_>>
         ELSE /\ result' = [result EXCEPT ![t].error = ERR_STDIN_PIPE]
              /\ open_fds' = cleanupWindowsHandles(open_fds)
              /\ HandlesReset
              /\ is_running_' = FALSE
              /\ pc' = [pc EXCEPT ![t] = "join"]
              /\ UNCHANGED <<pipes, hist>>
  /\ UNCHANGED <<remaining_output, auto_overwrite_, output_buffer_, last_error_,
                 stdout_pipe_, stdin_pipe_, child_pid_, children, sigpipe_ignored,
                 proc_alive, calls, stops, kills, bad_closes, harness, win32>>

\* lines 328-352: CreateProcessA with the capture pipe's write end as the
\* child's stdout/stderr and the feed pipe's read end as its stdin; the
\* parent then closes its copies of these two ends and resets them
CreateProcessA(t, scripts) ==
  /\ proc_alive
  /\ win32
  /\ pc[t] = "fork"
  /\ \/ /\ result' = [result EXCEPT ![t].error = ERR_CREATE_PROCESS]
        /\ open_fds' = cleanupWindowsHandles(open_fds)
        /\ HandlesReset
        /\ is_running_' = FALSE
        /\ pc' = [pc EXCEPT ![t] = "join"]
        /\ UNCHANGED <<children, hist>>
     \/ \E script \in scripts, code \in ExitCodes :
          LET pid == Len(children) + 1
          IN  /\ children' = Append(children,
                   [state |-> "running", script |-> script, code |-> code,
                    out |-> PipeOf(stdout_write_handle_),
                    inp |-> PipeOf(stdin_read_handle_),
                    sig |-> "none"])
              /\ process_info_' = [hProcess |-> pid, hThread |-> pid]
              /\ open_fds' = open_fds \ {stdout_write_handle_, stdin_read_handle_}
              /\ stdout_write_handle_' = nullptr
              /\ stdin_read_handle_' = nullptr
              /\ hist' = [hist EXCEPT ![t].child = pid]
              /\ pc' = [pc EXCEPT ![t] = "poll"]
              /\ UNCHANGED <<result, is_running_, stdout_read_handle_,
                             stdin_write_handle_>>
  /\ UNCHANGED <<remaining_output, auto_overwrite_, output_buffer_, last_error_,
                 stdout_pipe_, stdin_pipe_, child_pid_, pipes, sigpipe_ignored,
                 proc_alive, calls, stops, kills, bad_closes, harness, win32>>

\* GetExitCodeProcess(hProcess, &exit_code)
GetExitCodeProcess(h) ==
  IF ~(h \in 1..Len(children)) THEN [ok |-> FALSE, exit_code |-> 0]
  ELSE IF Running(h) THEN [ok |-> TRUE, exit_code |-> STILL_ACTIVE]
  ELSE [ok |-> TRUE, exit_code |-> children[h].code]

\* lines 359-367: the loop test and the exit poll
PollExitCode(t) ==
  /\ proc_alive
  /\ win32
  /\ pc[t] = "poll"
  /\ IF ~is_running_
       THEN /\ pc' = [pc EXCEPT ![t] = "drain"]
            /\ UNCHANGED <<result, hist>>
       ELSE LET g == GetExitCodeProcess(process_info_.hProcess)
            IN  IF g.ok /\ g.exit_code # STILL_ACTIVE
                  THEN /\ result' = [result EXCEPT ![t].exitCode = g.exit_code]
                       /\ hist' = [hist EXCEPT ![t].observed =
                                     [wait_result |-> process_info_.hProcess,
                                      exited |-> TRUE, code |-> g.exit_code]]
                       /\ pc' = [pc EXCEPT ![t] = "drain"]
                  ELSE /\ pc' = [pc EXCEPT ![t] = "read"]
                       /\ UNCHANGED <<result, hist>>
  /\ UNCHANGED <<remaining_output, members, os, calls, stops, kills, bad_closes,
                 harness, windows>>

\* the bytes ReadFile takes out of the capture pipe, at most
\* sizeof(buffer) - 1 of them
ReadFile(h) ==
  LET p == PipeOf(h)
      n == IF Len(pipes[p].data) < BUF_SIZE - 1
             THEN Len(pipes[p].data) ELSE BUF_SIZE - 1
  IN  substr2(pipes[p].data, 0, n)

HandleReadable(h) == h \in open_fds /\ IsPipeFd(h) /\ IsReadEnd(h)

ConsumeFile(t, data) ==
  LET p == PipeOf(stdout_read_handle_)
      st == [WorkerState(t) EXCEPT !.pipes[p].data = substr(@, Len(data))]
  IN  Commit(t, processOutput(c_str(data), st))

\* lines 370-378: PeekNamedPipe, then ReadFile and processOutput when bytes
\* are there, then Sleep(10)
PeekAndRead(t) ==
  /\ proc_alive
  /\ win32
  /\ pc[t] = "read"
  /\ IF HandleReadable(stdout_read_handle_) /\ ReadFile(stdout_read_handle_) # <<>>
       THEN ConsumeFile(t, ReadFile(stdout_read_handle_))
       ELSE UNCHANGED <<result, remaining_output, output_buffer_, last_error_,
                        pipes, hist, proc_alive>>
  /\ pc' = [pc EXCEPT ![t] = "poll"]
  /\ UNCHANGED <<is_running_, auto_overwrite_, stdout_pipe_, stdin_pipe_, child_pid_,
                 open_fds, children, sigpipe_ignored, calls, stops, kills,
                 bad_closes, harness, windows>>

\* lines 382-385: the final drain; ReadFile waits while the pipe is empty and
\* a write end is open, and fails once the pipe is empty and no write end is
\* left
DrainFile(t) ==
  /\ proc_alive
  /\ win32
  /\ pc[t] = "drain"
  /\ IF HandleReadable(stdout_read_handle_) /\ ReadFile(stdout_read_handle_) # <<>>
       THEN /\ ConsumeFile(t, ReadFile(stdout_read_handle_))
            /\ UNCHANGED pc
       ELSE /\ ~(HandleReadable(stdout_read_handle_)
                   /\ HasWriter(PipeOf(stdout_read_handle_)))
            /\ pc' = [pc EXCEPT ![t] = "exit_code"]
            /\ UNCHANGED <<result, remaining_output, output_buffer_, last_error_,
                           pipes, hist, proc_alive>>
  /\ UNCHANGED <<is_running_, auto_overwrite_, stdout_pipe_, stdin_pipe_, child_pid_,
                 open_fds, children, sigpipe_ignored, calls, stops, kills,
                 bad_closes, harness, windows>>

\* lines 388-395: the final exit code; an exit code 0 makes the result a
\* success when no line did
FinalExitCode(t) ==
  /\ proc_alive
  /\ win32
  /\ pc[t] = "exit_code"
  /\ LET g == GetExitCodeProcess(process_info_.hProcess)
     IN  result' = IF g.ok
                     THEN [result EXCEPT ![t].exitCode = g.exit_code,
                                         ![t].success = @ \/ g.exit_code = 0]
                     ELSE result
  /\ pc' = [pc EXCEPT ![t] = "cleanup"]
  /\ UNCHANGED <<remaining_output, members, os, hist, calls, stops, kills,
                 bad_closes, harness, windows>>

\* lines 398-404: cleanupWindowsHandles() and result.output = output_buffer_
CleanupWindows(t) ==
  /\ proc_alive
  /\ win32
  /\ pc[t] = "cleanup"
  /\ open_fds' = cleanupWindowsHandles(open_fds)
  /\ HandlesReset
  /\ result' = [result EXCEPT ![t].output = output_buffer_]
  /\ pc' = [pc EXCEPT ![t] = "join"]
  /\ UNCHANGED <<remaining_output, members, pipes, children, sigpipe_ignored,
                 proc_alive, hist, calls, stops, kills, bad_closes, harness, win32>>

\* ------------------------------------------------------ the child's steps
ChildStep(c) ==
  /\ proc_alive
  /\ Running(c)
  /\ children[c].script # <<>>
  /\ LET step == Head(children[c].script)
         rest == Tail(children[c].script)
         o == children[c].out
         i == children[c].inp
     IN  IF step.op = "out"
           THEN IF o # 0 /\ HasReader(o)
                  THEN /\ pipes' = [pipes EXCEPT ![o].data = @ \o step.data,
                                                 ![o].written = @ \o step.data]
                       /\ children' = [children EXCEPT ![c].script = rest]
                  ELSE \* write on a pipe nobody reads: SIGPIPE
                       /\ children' = [children EXCEPT ![c].state = "signaled",
                                                       ![c].sig = "SIGPIPE"]
                       /\ UNCHANGED pipes
           ELSE \* a blocking read of one line of stdin
                IF i # 0 /\ contains(pipes[i].data, <<NL>>)
                  THEN /\ pipes' = [pipes EXCEPT ![i].data =
                                      substr(@, find(@, <<NL>>, 0) + 1)]
                       /\ children' = [children EXCEPT ![c].script = rest]
                  ELSE \* end of file on stdin: the child gives up
                       /\ i = 0 \/ ~(WriteFd(i) \in open_fds)
                       /\ children' = [children EXCEPT ![c].script = <<>>, ![c].code = 1]
                       /\ UNCHANGED pipes
  /\ UNCHANGED <<pc, result, remaining_output, members, open_fds, sigpipe_ignored,
                 proc_alive, hist, calls, stops, kills, bad_closes, harness, windows>>

ChildExit(c) ==
  /\ proc_alive
  /\ Running(c)
  /\ children[c].script = <<>>
  /\ children' = [children EXCEPT ![c].state = "exited"]
  /\ UNCHANGED <<pc, result, remaining_output, members, open_fds, pipes,
                 sigpipe_ignored, proc_alive, hist, calls, stops, kills,
                 bad_closes, harness, windows>>

\* the child is ended by a signal that stop() did not send (it crashes, or
\* is killed from outside): what the WIFEXITED test of line 509 tells apart
ChildKilled(c) ==
  /\ proc_alive
  /\ Running(c)
  /\ children' = [children EXCEPT ![c].state = "signaled", ![c].sig = "SIGKILL"]
  /\ UNCHANGED <<pc, result, remaining_output, members, open_fds, pipes,
                 sigpipe_ignored, proc_alive, hist, calls, stops, kills,
                 bad_closes, harness, windows>>

\* ------------------------------------------------------- specifications
\* the instance as its constructor leaves it (line 54, member initialisers at
\* lines 144-146), in a process that has opened nothing yet
Constructed ==
  /\ pc = [t \in Callers |-> "idle"]
  /\ result = [t \in Callers |-> NewResult]
  /\ remaining_output = [t \in Callers |-> <<>>]
  /\ is_running_ = FALSE
  /\ auto_overwrite_ = TRUE
  /\ output_buffer_ = <<>>
  /\ last_error_ = <<>>
  /\ stdout_pipe_ = ClosedPair
  /\ stdin_pipe_ = ClosedPair
  /\ child_pid_ = NoPid
  /\ open_fds = {}
  /\ pipes = <<>>
  /\ children = <<>>
  /\ proc_alive = TRUE
  /\ hist = [t \in Callers |-> NewHist]
  /\ calls = [t \in Callers |-> 0]
  /\ stops = 0
  /\ kills = <<>>
  /\ bad_closes = 0
  /\ stdout_read_handle_ = nullptr
  /\ stdout_write_handle_ = nullptr
  /\ stdin_read_handle_ = nullptr
  /\ stdin_write_handle_ = nullptr
  /\ process_info_ = NoProcess

Init ==
  /\ Constructed
  /\ win32 = FALSE
  /\ sigpipe_ignored \in BOOLEAN
  /\ h_stream = <<>>
  /\ h_pos = 0

Step(t, scripts) ==
  \/ ExecCheck(t) \/ ExecBegin(t) \/ PipeOut(t) \/ PipeIn(t) \/ Fork(t, scripts)
  \/ Poll(t) \/ Read(t) \/ Drain(t) \/ Cleanup(t) \/ Return(t)

Child == \E c \in 1..Len(children) : ChildStep(c) \/ ChildExit(c)

\* execute() and stop() called from several threads
Next == (\E t \in Callers : Step(t, ConcScripts)) \/ stop \/ Child

\* the process keeps the default disposition of SIGPIPE
InitDefault ==
  /\ Init
  /\ sigpipe_ignored = FALSE

Spec == InitDefault /\ [][Next]_vars

\* one thread calls execute(), one call after the other; stop() and
\* setAutoOverwrite() come from a second thread
NextSeq ==
  \/ Step(1, Scripts)
  \/ stop
  \/ \E b \in BOOLEAN : setAutoOverwrite(b)
  \/ Child

SpecSeq == Init /\ [][NextSeq]_vars

\* one thread runs executions, a second thread calls execute() while the flag
\* is set, a third calls stop()
ExecWhileRunning(t) == is_running_ /\ ExecCheck(t)

NextReject == Step(1, ConcScripts) \/ stop \/ Child \/ ExecWhileRunning(2)

SpecReject == InitDefault /\ [][NextReject]_vars

\* one thread runs executions of a child that may be ended by a signal, a
\* second thread calls stop()
NextSignal ==
  \/ Step(1, ConcScripts)
  \/ stop
  \/ Child
  \/ \E c \in 1..Len(children) : ChildKilled(c)

SpecSignal == InitDefault /\ [][NextSignal]_vars

\* one thread runs executions of a child whose output holds a NUL byte
NextBinary == Step(1, BinaryScripts) \/ stop \/ Child

SpecBinary == InitDefault /\ [][NextBinary]_vars

\* one thread runs executions of the commands of OrderScripts; stop() and
\* setAutoOverwrite() come from a second thread
NextOrder ==
  \/ Step(1, OrderScripts)
  \/ stop
  \/ \E b \in BOOLEAN : setAutoOverwrite(b)
  \/ Child

SpecOrder == Init /\ [][NextOrder]_vars

\* one thread runs executions of the commands of StickyScripts, a second
\* thread calls stop()
NextSticky == Step(1, StickyScripts) \/ stop \/ Child

SpecSticky == InitDefault /\ [][NextSticky]_vars

\* one thread runs executions during which a read of the capture pipe may
\* fail
NextReadError == Step(1, ReadErrorScripts) \/ ReadError(1) \/ Child

SpecReadError == InitDefault /\ [][NextReadError]_vars

\* the instance used from one thread only: execute() after execute(), no
\* stop() and no setAutoOverwrite() from elsewhere
NextSolo == Step(1, Scripts) \/ Child

SpecSolo == Init /\ [][NextSolo]_vars

\* one thread calls execute() once more than elsewhere, each call after the
\* return of the one before
NextTwice ==
  \/ ExecCheckUpTo(1, MaxCalls + 1)
  \/ ExecBegin(1) \/ PipeOut(1) \/ PipeIn(1) \/ Fork(1, TwiceScripts)
  \/ Poll(1) \/ Read(1) \/ Drain(1) \/ Cleanup(1) \/ Return(1)
  \/ Child

SpecTwice == InitDefault /\ [][NextTwice]_vars

\* execute() as Converting_video_format calls it: auto-overwrite on, one
\* thread, a command that asks before it overwrites
NextPrompt == Step(1, PromptScripts) \/ Child

SpecPrompt == Init /\ [][NextPrompt]_vars

\* one thread calls execute() once more than elsewhere, with commands whose
\* output ends in an unterminated line
NextTail ==
  \/ ExecCheckUpTo(1, MaxCalls + 1)
  \/ ExecBegin(1) \/ PipeOut(1) \/ PipeIn(1) \/ Fork(1, TailScripts)
  \/ Poll(1) \/ Read(1) \/ Drain(1) \/ Cleanup(1) \/ Return(1)
  \/ Child

SpecTail == InitDefault /\ [][NextTail]_vars

\* one thread calls execute() once more than elsewhere, each call after the
\* return of the one before; a second thread calls execute() while the flag
\* is set
NextLastError == NextTwice \/ ExecWhileRunning(2)

SpecLastError == InitDefault /\ [][NextLastError]_vars

\* one thread calls execute(); a read of the capture pipe may fail and a
\* second thread may call stop()
NextLoop == Step(1, Scripts) \/ ReadError(1) \/ stop \/ Child

SpecLoop == InitDefault /\ [][NextLoop]_vars

\* a Windows build: one thread calls execute(), one call after the other;
\* stop() and setAutoOverwrite() come from a second thread
InitWindows ==
  /\ Constructed
  /\ win32 = TRUE
  /\ sigpipe_ignored = FALSE
  /\ h_stream = <<>>
  /\ h_pos = 0

StepWindows(t, scripts) ==
  \/ ExecCheck(t) \/ ExecBegin(t) \/ CreateStdoutPipe(t) \/ CreateStdinPipe(t)
  \/ CreateProcessA(t, scripts) \/ PollExitCode(t) \/ PeekAndRead(t)
  \/ DrainFile(t) \/ FinalExitCode(t) \/ CleanupWindows(t) \/ Return(t)

NextWindows ==
  \/ StepWindows(1, Scripts)
  \/ stop
  \/ \E b \in BOOLEAN : setAutoOverwrite(b)
  \/ Child

SpecWindows == InitWindows /\ [][NextWindows]_vars

\* ------------------------------------------------- reassembly harness
\* processOutput on successive chunks of a byte stream, the carry-over
\* threaded from call to call as the read loop does
Bytes == {"a", CR, NL}

Streams == UNION {[1..n -> Bytes] : n \in 0..MaxLen}

InitSplit ==
  /\ Constructed
  /\ win32 = FALSE
  /\ sigpipe_ignored = FALSE
  /\ h_stream \in Streams
  /\ h_pos = 0

FeedChunk ==
  /\ \E n \in 1..(Len(h_stream) - h_pos) :
       /\ Commit(1, processOutput(substr2(h_stream, h_pos, n), WorkerState(1)))
       /\ h_pos' = h_pos + n
  /\ UNCHANGED <<pc, is_running_, auto_overwrite_, stdout_pipe_, stdin_pipe_,
                 child_pid_, open_fds, children, sigpipe_ignored, calls, stops,
                 kills, bad_closes, h_stream, windows>>

SpecSplit == InitSplit /\ [][FeedChunk]_vars

\* --------------------------------------------- classification harness
\* processLine on a sequence of completed lines, under either setting of
\* auto_overwrite_
InitClassify ==
  /\ Constructed
  /\ win32 = FALSE
  /\ sigpipe_ignored = FALSE
  /\ h_stream = <<>>
  /\ h_pos = 0

ClassifyLine ==
  /\ Len(hist[1].classified) < MaxLines
  /\ \E line \in TestLines : Commit(1, processLine(line, WorkerState(1)))
  /\ UNCHANGED <<pc, is_running_, auto_overwrite_, stdout_pipe_, stdin_pipe_,
                 child_pid_, open_fds, children, sigpipe_ignored, calls, stops,
                 kills, bad_closes, harness, windows>>

NextClassify == ClassifyLine \/ \E b \in BOOLEAN : setAutoOverwrite(b)

SpecClassify == InitClassify /\ [][NextClassify]_vars

\* ------------------------------------------------------------- properties
\* caller t holds the value its last execute() returned, and hist[t] is that
\* call's history
Returned(t) == pc[t] = "idle" /\ calls[t] > 0

\* the call of t was accepted and has launched its child
Launched(t) == hist[t].child # 0

InReadLoop(t) == pc[t] \in {"poll", "read", "drain"}

\* the positions (1-based) of the newlines of s, and the k-th of them
NewlinesOf(s) == {i \in 1..Len(s) : s[i] = NL}

NthNewline(s, k) ==
  CHOOSE i \in NewlinesOf(s) : Cardinality({j \in NewlinesOf(s) : j < i}) = k - 1

StripOneCR(x) ==
  IF Len(x) > 0 /\ x[Len(x)] = CR THEN SubSeq(x, 1, Len(x) - 1) ELSE x

\* the newline-terminated lines of s, one trailing carriage return removed
RefLines(s) ==
  [k \in 1..Cardinality(NewlinesOf(s)) |->
     StripOneCR(SubSeq(s, IF k = 1 THEN 1 ELSE NthNewline(s, k - 1) + 1,
                       NthNewline(s, k) - 1))]

\* what follows the last newline of s
RefRest(s) ==
  SubSeq(s, 1 + (IF NewlinesOf(s) = {} THEN 0
                 ELSE NthNewline(s, Cardinality(NewlinesOf(s)))), Len(s))

RECURSIVE Tokens(_)
Tokens(n) == IF n = 0 THEN <<>> ELSE YES_TOKEN \o Tokens(n - 1)

PromptCount(lines) ==
  Cardinality({i \in 1..Len(lines) : detectOverwritePrompt(lines[i])})

\* the lines a step of caller t handed to processLine
NewLines(t) ==
  SubSeq(hist'[t].classified, Len(hist[t].classified) + 1, Len(hist'[t].classified))

\* C1: under every interleaving of execute() and stop() calls from several
\* threads, two executions are never inside their read loops (each with its
\* launched child) at the same time.
C1_AtMostOneExecution ==
  \A t1, t2 \in Callers : InReadLoop(t1) /\ InReadLoop(t2) => t1 = t2

\* C2: a call of execute() that finds the running flag set returns at once
\* success=false, exitCode=-1, both overwrite flags false and a non-empty
\* error text; it creates no pipe and no child and leaves the flag, the
\* transcript buffer, the pipe members, the descriptors and the recorded child
\* of the execution in flight as they were.
C2_RejectedCallChangesNothing ==
  [][\A t \in Callers :
       (pc[t] = "idle" /\ is_running_ /\ calls'[t] = calls[t] + 1) =>
         /\ result'[t].success = FALSE
         /\ result'[t].exitCode = -1
         /\ result'[t].overwritePrompted = FALSE
         /\ result'[t].overwriteConfirmed = FALSE
         /\ result'[t].error # <<>>
         /\ pc'[t] = "idle"
         /\ UNCHANGED <<is_running_, output_buffer_, stdout_pipe_, stdin_pipe_,
                        child_pid_, open_fds, pipes, children>>]_vars

C2_Witness ==
  /\ calls[2] = 1
  /\ result[2].error = ERR_ALREADY_RUNNING
  /\ pc[1] = "read"
  /\ is_running_
  /\ output_buffer_ # <<>>

\* C3: in every state of a result, during and after an execution,
\* overwriteConfirmed implies overwritePrompted.
C3_ConfirmedImpliesPrompted ==
  \A t \in Callers : result[t].overwriteConfirmed => result[t].overwritePrompted

C3_Witness ==
  /\ InReadLoop(1)
  /\ result[1].overwriteConfirmed
  /\ result[1].overwritePrompted

\* C4: however the byte stream is cut into the chunks given to processOutput,
\* the lines handed to processLine are the stream's newline-terminated pieces,
\* one trailing carriage return removed from each, and the carry-over is what
\* follows the last newline fed so far.
C4_ChunkInvariant ==
  LET fed == SubSeq(h_stream, 1, h_pos)
  IN  /\ hist[1].classified = RefLines(fed)
      /\ remaining_output[1] = RefRest(fed)

C4_Witness ==
  /\ h_pos = Len(h_stream)
  /\ h_stream = <<"a", CR, NL, "a">>
  /\ hist[1].classified = << <<"a">> >>
  /\ remaining_output[1] = <<"a">>

\* C5 as claimed: with auto-overwrite enabled, a step that classifies n
\* prompt lines sets both flags and appends exactly n tokens "y\n" to the feed
\* pipe.
C5_EveryPromptIsAnswered ==
  [][\A t \in Callers :
       (auto_overwrite_ /\ Launched(t) /\ hist[t].feed # 0
          /\ PromptCount(NewLines(t)) > 0) =>
         /\ result'[t].overwritePrompted
         /\ result'[t].overwriteConfirmed
         /\ pipes'[hist[t].feed].written =
              pipes[hist[t].feed].written \o Tokens(PromptCount(NewLines(t)))]_vars

\* C5 as amended: with auto-overwrite enabled every prompt line sets both
\* flags; while the child still holds the read end of the feed pipe, n prompt
\* lines append exactly n tokens "y\n", in order; once the child has
\* terminated the write fails and nothing is appended.
C5_PromptAnsweredWhileChildReads ==
  [][\A t \in Callers :
       (auto_overwrite_ /\ Launched(t) /\ hist[t].feed # 0
          /\ PromptCount(NewLines(t)) > 0) =>
         /\ result'[t].overwritePrompted
         /\ result'[t].overwriteConfirmed
         /\ pipes'[hist[t].feed].written =
              IF HasReader(hist[t].feed)
                THEN pipes[hist[t].feed].written \o Tokens(PromptCount(NewLines(t)))
                ELSE pipes[hist[t].feed].written]_vars

C5_Witness ==
  /\ InReadLoop(1)
  /\ auto_overwrite_
  /\ PromptCount(hist[1].classified) = 2
  /\ result[1].overwriteConfirmed
  /\ pipes[hist[1].feed].written = YES_TOKEN \o YES_TOKEN

\* C6: a returned result has overwriteConfirmed only if a confirmation token
\* was actually written into the feed pipe.
C6_ConfirmedOnlyIfSent ==
  \A t \in Callers :
    (Returned(t) /\ result[t].overwriteConfirmed) =>
      /\ hist[t].sent > 0
      /\ pipes[hist[t].feed].written # <<>>

\* C7: in an execution during which auto-overwrite was never enabled, a
\* prompt line sets overwritePrompted, overwriteConfirmed stays false and
\* nothing is written to the child's input pipe.
C7_DisabledNeverAnswers ==
  \A t \in Callers :
    (Launched(t) /\ ~hist[t].auto_on) =>
      /\ ~result[t].overwriteConfirmed
      /\ hist[t].sent = 0
      /\ hist[t].feed # 0 => pipes[hist[t].feed].written = <<>>
      /\ PromptCount(hist[t].classified) > 0 => result[t].overwritePrompted

C7_Witness ==
  /\ Returned(1)
  /\ Launched(1)
  /\ ~hist[1].auto_on
  /\ PromptCount(hist[1].classified) = 2
  /\ result[1].overwritePrompted
  /\ pipes[hist[1].feed].written = <<>>

\* the nine keywords of the claim, lower case
RefKeywords ==
  {KW_error, KW_failed, KW_invalid, KW_unable, KW_cannot, KW_unknown,
   KW_not_found, KW_permission_denied, KW_access_denied}

HasKeyword(line) == \E k \in RefKeywords : contains(toLower(line), k)

HasNonMonotonous(line) == contains(toLower(line), NON_MONOTONOUS)

\* the last of the lines whose positions are in hits, empty when hits is empty
LastAt(lines, hits) ==
  IF hits = {} THEN <<>> ELSE lines[CHOOSE i \in hits : \A j \in hits : j <= i]

\* C8 as claimed: the error field is the most recent line holding one of the
\* keywords, empty when no line held one.
C8_ErrorIsLastKeywordLine ==
  \A t \in Callers :
    result[t].error =
      LastAt(hist[t].classified,
             {i \in 1..Len(hist[t].classified) : HasKeyword(hist[t].classified[i])})

\* C8 as amended: the error field is the most recent line that holds one of
\* the keywords and does not hold "non-monotonous"; it is empty when there is
\* no such line, and any other line leaves it unchanged.
C8_ErrorIsLastRecordedLine ==
  \A t \in Callers :
    result[t].error =
      LastAt(hist[t].classified,
             {i \in 1..Len(hist[t].classified) :
                /\ HasKeyword(hist[t].classified[i])
                /\ ~HasNonMonotonous(hist[t].classified[i])})

C8_Witness ==
  /\ hist[1].classified = <<L_Error, L_Frame>>
  /\ result[1].error = L_Error

\* C9: processing a line that holds "non-monotonous" in any letter case
\* leaves the error field and the last error unchanged, whichever keywords the
\* line holds.
C9_NonMonotonousNeverRecorded ==
  [][\A t \in Callers :
       (Len(NewLines(t)) = 1 /\ HasNonMonotonous(NewLines(t)[1])) =>
         /\ result'[t].error = result[t].error
         /\ last_error_' = last_error_]_vars

C9_Witness ==
  /\ hist[1].classified = <<L_Error, L_NonMonoError>>
  /\ result[1].error = L_Error
  /\ last_error_ = L_Error

\* the child of caller t's call has ended by exit(0)
ChildExitedZero(t) ==
  /\ Launched(t)
  /\ children[hist[t].child].state \in {"exited", "reaped"}
  /\ children[hist[t].child].code = 0

\* no line the child of caller t's call wrote matches the success or the
\* error test
NoLineMatched(t) ==
  \A l \in {RefLines(pipes[hist[t].cap].written)[i] :
              i \in 1..Len(RefLines(pipes[hist[t].cap].written))} :
    ~detectSuccess(l) /\ ~detectError(l)

\* the loop's waitpid saw the child of caller t's call end by exit(0)
ObservedExitZero(t) ==
  /\ hist[t].observed.wait_result = hist[t].child
  /\ hist[t].observed.exited
  /\ hist[t].observed.code = 0

\* C10 as claimed: a child that exits with code 0 and none of whose lines
\* matched gives a returned result with success=true and exitCode=0.
C10_ExitZeroIsSuccess ==
  \A t \in Callers :
    (Returned(t) /\ ChildExitedZero(t) /\ NoLineMatched(t)) =>
      result[t].success /\ result[t].exitCode = 0

\* C10 as amended: when moreover the read loop's exit poll saw that exit, the
\* returned result has success=true and exitCode=0; when the loop was ended
\* before its poll saw it, the result keeps success=false and exitCode=-1.
C10_ObservedExitZeroIsSuccess ==
  \A t \in Callers :
    (Returned(t) /\ ChildExitedZero(t) /\ NoLineMatched(t)) =>
      IF ObservedExitZero(t)
        THEN result[t].success /\ result[t].exitCode = 0
        ELSE ~result[t].success /\ result[t].exitCode = -1

C10_Witness ==
  /\ Returned(1)
  /\ ChildExitedZero(1)
  /\ NoLineMatched(1)
  /\ ObservedExitZero(1)
  /\ hist[1].classified # <<>>
  /\ result[1].success
  /\ result[1].exitCode = 0

\* the child of caller t's call has ended by exit(c) with c # 0
ChildExitedNonZero(t) ==
  /\ Launched(t)
  /\ children[hist[t].child].state \in {"exited", "reaped"}
  /\ children[hist[t].child].code # 0

\* the exit poll of caller t's call has collected the end of its child
PollCollected(t) == Launched(t) /\ children[hist[t].child].state = "reaped"

\* C11 as claimed: a child that exits with a non-zero code c and none of
\* whose lines matched gives a returned result with success=false and
\* exitCode=c.
C11_ExitNonZeroIsFailure ==
  \A t \in Callers :
    (Returned(t) /\ ChildExitedNonZero(t) /\ NoLineMatched(t)) =>
      ~result[t].success /\ result[t].exitCode = children[hist[t].child].code

\* C11 as amended: when moreover the read loop's exit poll collected that
\* exit, the returned result has success=false and exitCode=c; when the loop
\* was ended before its poll saw the exit, the result has success=false and
\* exitCode=-1.
C11_ObservedExitNonZeroIsFailure ==
  \A t \in Callers :
    (Returned(t) /\ ChildExitedNonZero(t) /\ NoLineMatched(t)) =>
      /\ ~result[t].success
      /\ result[t].exitCode =
           IF PollCollected(t) THEN children[hist[t].child].code ELSE -1

C11_Witness ==
  /\ Returned(1)
  /\ ChildExitedNonZero(1)
  /\ NoLineMatched(1)
  /\ PollCollected(1)
  /\ hist[1].classified # <<>>
  /\ ~result[1].success
  /\ result[1].exitCode = 1

\* C12, the clause on the exit-code tie-break: when the exit poll collects an
\* exit with code 0 while no success line was seen and an error line is
\* recorded, the poll does not set success.
C12_NoTieBreakAfterError ==
  [][\A t \in Callers :
       (/\ pc[t] = "poll"
        /\ pc'[t] = "drain"
        /\ ~result[t].success
        /\ result[t].error # <<>>) => ~result'[t].success]_vars

\* the child of caller t's call ran to its exit() (no signal ended it)
EndedByExit(t) == Launched(t) /\ children[hist[t].child].sig = "none"

\* C13 as claimed: in a returned result exitCode differs from -1 exactly when
\* the exit poll saw the child terminate, by exit or by a signal.
C13_ExitCodeIffObserved ==
  \A t \in Callers :
    Returned(t) => (result[t].exitCode # -1 <=> PollCollected(t))

\* C13 as amended: in a returned result exitCode differs from -1 exactly when
\* the exit poll saw the child terminate by exit(), and is then that exit's
\* code; a child seen to have been ended by a signal, like a launch failure
\* or a loop ended before the poll saw the end, leaves -1.
C13_ExitCodeIffObservedExit ==
  \A t \in Callers :
    Returned(t) =>
      result[t].exitCode =
        IF PollCollected(t) /\ EndedByExit(t)
          THEN children[hist[t].child].code
          ELSE -1

C13_Witness ==
  /\ Returned(1)
  /\ PollCollected(1)
  /\ children[hist[1].child].sig = "SIGKILL"
  /\ result[1].exitCode = -1

\* the lines, each followed by one newline
RECURSIVE JoinLines(_)
JoinLines(lines) ==
  IF lines = <<>> THEN <<>> ELSE Head(lines) \o <<NL>> \o JoinLines(Tail(lines))

\* C14: when the exit poll has seen the child exit, the returned transcript
\* is every newline-terminated line the child wrote, in the order written,
\* each without its carriage return and followed by one newline.
C14_TranscriptComplete ==
  \A t \in Callers :
    (Returned(t) /\ PollCollected(t) /\ EndedByExit(t)) =>
      result[t].output = JoinLines(RefLines(pipes[hist[t].cap].written))

IsPrefix(a, b) == Len(a) <= Len(b) /\ SubSeq(b, 1, Len(a)) = a

\* the worker of caller t's call is between its start and its return
WorkerActive(t) == pc[t] \notin {"idle", "accepted"}

\* C15: while an execution is between its start and its return, every step
\* leaves the transcript accumulated so far as a prefix of the transcript
\* after the step.
C15_TranscriptOnlyGrows ==
  [][\A t \in Callers :
       WorkerActive(t) => IsPrefix(output_buffer_, output_buffer_')]_vars

C15_Witness ==
  /\ WorkerActive(1)
  /\ Len(hist[1].classified) = 2
  /\ output_buffer_ = JoinLines(hist[1].classified)

\* no execution is active: every caller is outside execute()
NoExecutionActive == \A t \in Callers : pc[t] = "idle"

\* C16: a stop() called while no execution is active sends no signal to any
\* process and changes nothing of the instance or of the processes.
C16_IdleStopIsNoOp ==
  [][(stops' = stops + 1 /\ NoExecutionActive) =>
       /\ kills' = kills
       /\ UNCHANGED <<members, os, result>>]_vars

\* the read loop of caller t's call was ended by the cleared running flag: it
\* is over and its exit poll never saw the child end
LoopEndedByStop(t) ==
  /\ Launched(t)
  /\ pc[t] \in {"drain", "cleanup", "join"}
  /\ hist[t].observed.wait_result = 0

\* C17: once stop() has ended the read loop, the in-flight execute() goes on
\* to its return: the supervising process is not ended while the cancelled
\* call drains and cleans up.
C17_StoppedExecuteReturns ==
  \A t \in Callers : LoopEndedByStop(t) => proc_alive

\* the messages of the three launch failures
LaunchErrors == {ERR_STDOUT_PIPE, ERR_STDIN_PIPE, ERR_FORK}

\* the message of the launch step at which caller t's call failed
LaunchErrorOf(t) ==
  IF hist[t].cap = 0 THEN ERR_STDOUT_PIPE
  ELSE IF hist[t].feed = 0 THEN ERR_STDIN_PIPE
  ELSE ERR_FORK

\* C18: a returned call carries a launch-failure message exactly when it
\* launched no child, and such a call has classified nothing, written nothing
\* to a child, left the pipes it created untouched, returns success=false,
\* exitCode=-1, both overwrite flags false, an empty transcript and the
\* (non-empty) message of the step that failed, and leaves the running flag
\* false.
C18_LaunchFailureReturnsAtOnce ==
  \A t \in Callers :
    Returned(t) =>
      /\ ~Launched(t) <=> result[t].error \in LaunchErrors
      /\ ~Launched(t) =>
           /\ result[t] = [NewResult EXCEPT !.error = LaunchErrorOf(t)]
           /\ result[t].error # <<>>
           /\ hist[t].classified = <<>>
           /\ hist[t].sent = 0
           /\ \A p \in {hist[t].cap, hist[t].feed} \ {0} : pipes[p].written = <<>>
           /\ ~is_running_

C18_Witness ==
  /\ Returned(1)
  /\ ~Launched(1)
  /\ hist[1].feed # 0
  /\ result[1].error = ERR_FORK
  /\ ~is_running_

\* the descriptors of the pipes caller t's call created
FdsOf(t) ==
  UNION {{ReadFd(p), WriteFd(p)} : p \in {hist[t].cap, hist[t].feed} \ {0}}

\* C19: when execute() has returned, every end of the pipes the call created
\* is closed in the supervising process, and the child the call launched has
\* been waited for.
C19_AllReleasedAtReturn ==
  \A t \in Callers :
    Returned(t) =>
      /\ FdsOf(t) \cap open_fds = {}
      /\ Launched(t) => children[hist[t].child].state = "reaped"

\* what one line does to a result when each of the three tests has its own
\* effect
RefLineEffect(r, line) ==
  [r EXCEPT !.overwritePrompted = @ \/ detectOverwritePrompt(line),
            !.overwriteConfirmed = @ \/ (detectOverwritePrompt(line) /\ auto_overwrite_),
            !.error = IF detectError(line) THEN line ELSE @,
            !.success = @ \/ detectSuccess(line)]

RECURSIVE RefEffects(_, _)
RefEffects(lines, r) ==
  IF lines = <<>> THEN r
  ELSE RefEffects(Tail(lines), RefLineEffect(r, Head(lines)))

Front(lines) == SubSeq(lines, 1, Len(lines) - 1)

C21_SuccessIsSticky ==
  [][\A t \in Callers :
       WorkerActive(t) =>
         /\ result[t].success => result'[t].success
         /\ (\E i \in 1..Len(NewLines(t)) : detectSuccess(NewLines(t)[i]))
              => result'[t].success
         /\ (/\ NewLines(t) # <<>>
             /\ \A i \in 1..Len(NewLines(t)) : ~detectError(NewLines(t)[i]))
              => result'[t].error = result[t].error]_vars

C21_Witness ==
  /\ Returned(1)
  /\ hist[1].classified = <<L_Mux, L_Error>>
  /\ result[1].success
  /\ result[1].error = L_Error
  /\ result[1].exitCode = 1

\* C22: a step that classifies a prompt line while auto-overwrite is on and
\* nobody reads the feed pipe any more (the write of the token fails) leaves
\* the supervising process running.
C22_FailedWriteIsSwallowed ==
  [][\A t \in Callers :
       (/\ Launched(t)
        /\ auto_overwrite_
        /\ ~HasReader(hist[t].feed)
        /\ PromptCount(NewLines(t)) > 0) => proc_alive']_vars

\* the positions of the error lines among lines
ErrorLinesOf(lines) == {i \in 1..Len(lines) : detectError(lines[i])}

\* C23: the read loop goes from a read to the final drain only when the read
\* failed with an error other than "would block" (a read of zero bytes or one
\* that would block goes back to the poll); and the result returned by a call
\* in which that happened has exitCode -1, the lines classified as its
\* transcript, and as error field the last error line classified, if any,
\* nothing about the failed read.
C23_ReadErrorEndsLoopQuietly ==
  [][\A t \in Callers :
       /\ (pc[t] = "read" /\ pc'[t] = "drain") => hist'[t].read_error
       /\ (pc'[t] = "idle" /\ calls'[t] > 0 /\ hist'[t].read_error) =>
            /\ result'[t].exitCode = -1
            /\ result'[t].output = JoinLines(hist'[t].classified)
            /\ result'[t].error =
                 LastAt(hist'[t].classified, ErrorLinesOf(hist'[t].classified))]_vars

C23_Witness ==
  /\ Returned(1)
  /\ hist[1].read_error
  /\ hist[1].classified = <<L_Error>>
  /\ result[1].exitCode = -1
  /\ result[1].output = L_Error \o <<NL>>
  /\ result[1].error = L_Error

\* the worker thread of caller t's call is running executeUnix
WorkerRuns(t) ==
  pc[t] \in {"pipe_out", "pipe_in", "fork", "poll", "read", "drain", "cleanup"}

\* C24: on an instance used from one thread, execute() returns only from the
\* join of its finished worker, the running flag is true in every state in
\* which the worker runs and false once execute() has returned, and no step
\* taken while the caller is outside execute() changes its result.
C24_ReturnsAfterWorker ==
  [][\A t \in Callers :
       /\ (pc[t] # "idle" /\ pc'[t] = "idle") => pc[t] = "join"
       /\ WorkerRuns(t)' => is_running_'
       /\ Returned(t)' => ~is_running_'
       /\ (pc[t] = "idle" /\ pc'[t] = "idle") => result'[t] = result[t]]_vars

C24_Witness ==
  /\ Returned(1)
  /\ PollCollected(1)
  /\ result[1].output # <<>>
  /\ ~is_running_

\* the result that the lines classified by caller t's call and the end of its
\* child give to a result that starts empty
FreshResultOf(t) ==
  LET e == RefEffects(hist[t].classified, NewResult)
      exit_seen == PollCollected(t) /\ EndedByExit(t)
      code == children[hist[t].child].code
  IN  [e EXCEPT !.output = JoinLines(hist[t].classified),
                !.exitCode = IF exit_seen THEN code ELSE -1,
                !.success = @ \/ (exit_seen /\ code = 0)]

\* C25: the result returned by an execution that launched its child is what
\* that child's lines and exit give to an empty result, whatever the
\* executions before it on the same instance produced.
C25_ResultFromOwnChildOnly ==
  \A t \in Callers :
    (Returned(t) /\ Launched(t)) =>
      /\ IsPrefix(hist[t].classified, RefLines(pipes[hist[t].cap].written))
      /\ result[t] = FreshResultOf(t)

C25_Witness ==
  /\ Returned(1)
  /\ calls[1] = 2
  /\ Launched(1)
  /\ hist[1].cap > 1
  /\ contains(pipes[1].written, L_Error)
  /\ pipes[hist[1].cap].written = L_Frame \o <<CR, NL>>
  /\ result[1] = [NewResult EXCEPT !.output = L_Frame \o <<NL>>,
                                   !.exitCode = 0, !.success = TRUE]

\* two characters that are the same letter, whatever their case
SameLetter(a, b) ==
  \/ a = b
  \/ a \in DOMAIN UpperToLower /\ UpperToLower[a] = b
  \/ b \in DOMAIN UpperToLower /\ UpperToLower[b] = a

\* pat occurs in line, letter case ignored / as written
HasIgnoringCase(line, pat) ==
  \E i \in 1..(Len(line) - Len(pat) + 1) :
    \A j \in 1..Len(pat) : SameLetter(line[i + j - 1], pat[j])

HasAsWritten(line, pat) ==
  \E i \in 1..(Len(line) - Len(pat) + 1) :
    \A j \in 1..Len(pat) : line[i + j - 1] = pat[j]

RefPrompt(line) ==
  \/ HasIgnoringCase(line, ALREADY_EXISTS) /\ HasIgnoringCase(line, OVERWRITE)
  \/ HasIgnoringCase(line, OVERWRITE_Q)
  \/ HasIgnoringCase(line, OVERWRITE_YN)
  \/ HasAsWritten(line, CN_EXISTS) /\ HasAsWritten(line, CN_OVERWRITE)

RefSuccess(line) ==
  \/ /\ HasIgnoringCase(line, VIDEO_MARK)
     /\ HasIgnoringCase(line, AUDIO_MARK)
     /\ HasIgnoringCase(line, SUBTITLE_MARK)
  \/ HasIgnoringCase(line, MUXING_OVERHEAD)

\* C26: a step that classifies a line sets overwritePrompted exactly when the
\* line holds, letter case ignored, "already exists" and "overwrite", or
\* "overwrite?", or "overwrite (y/n)", or holds both Chinese markers; any
\* other line leaves the flag as it was.
C26_PromptTestMatchesExactly ==
  [][\A t \in Callers :
       Len(NewLines(t)) = 1 =>
         result'[t].overwritePrompted =
           (result[t].overwritePrompted \/ RefPrompt(NewLines(t)[1]))]_vars

C26_Witness ==
  /\ hist[1].classified = <<L_OverwriteOnly, L_PromptCN>>
  /\ result[1].overwritePrompted

\* C27: a step that classifies a line sets success exactly when the line
\* holds, letter case ignored, all three of "video:", "audio:" and
\* "subtitle:", or holds "muxing overhead"; any other line leaves success as
\* it was.
C27_SuccessTestMatchesExactly ==
  [][\A t \in Callers :
       Len(NewLines(t)) = 1 =>
         result'[t].success =
           (result[t].success \/ RefSuccess(NewLines(t)[1]))]_vars

C27_Witness ==
  /\ hist[1].classified = <<L_TwoStreams, L_Streams>>
  /\ result[1].success

\* caller t's call has returned after a read loop that ended on the cleared
\* running flag: stop() came while the call was in flight
ReturnedAfterStop(t) ==
  /\ Returned(t)
  /\ Launched(t)
  /\ hist[t].observed.wait_result = 0
  /\ ~hist[t].read_error

\* C28: when stop() has ended a call in flight, at whatever point after its
\* acceptance, the child of that call has been sent a termination signal and
\* is not running any more when execute() has returned.
C28_StoppedChildIsSignalled ==
  \A t \in Callers :
    ReturnedAfterStop(t) =>
      /\ \E k \in 1..Len(kills) : kills[k].pid = hist[t].child
      /\ children[hist[t].child].state # "running"

\* the child of caller t's call has written prompt text and is blocked in a
\* read of its input, and the read loop has taken everything the child wrote
\* out of the capture pipe
PromptReadChildWaiting(t) ==
  /\ InReadLoop(t)
  /\ Launched(t)
  /\ Running(hist[t].child)
  /\ children[hist[t].child].script # <<>>
  /\ Head(children[hist[t].child].script).op = "in"
  /\ RefPrompt(pipes[hist[t].cap].written)
  /\ pipes[hist[t].cap].data = <<>>

\* C29: with auto-overwrite on, when the read loop has read the prompt text
\* of a child that waits for its input, the confirmation token has been
\* written to the feed pipe, whether or not a newline follows the prompt
\* text: the loop is not left polling a child that waits for an answer.
C29_PromptIsAnswered ==
  \A t \in Callers :
    (auto_overwrite_ /\ PromptReadChildWaiting(t)) => hist[t].sent > 0

\* stop() ended the child of caller t's call while it was running: the child
\* did not exit on its own
StoppedWhileRunning(t) ==
  \E k \in 1..Len(kills) :
    kills[k].pid = hist[t].child /\ kills[k].state = "running"

\* no line of caller t's call matched the success test
NoSuccessLine(t) ==
  \A i \in 1..Len(hist[t].classified) : ~RefSuccess(hist[t].classified[i])

\* C30: a call that has returned after stop() ended its running child, and
\* none of whose lines matched the success test, returns success=false, in a
\* Windows build (where stop() terminates the child with the exit code 0) as
\* in a Unix build.
C30_CancelledRunIsNotSuccess ==
  \A t \in Callers :
    (Returned(t) /\ Launched(t) /\ StoppedWhileRunning(t) /\ NoSuccessLine(t))
      => ~result[t].success

\* C31: a call that launched a child, met no read error on the capture pipe
\* and was not stopped returns only after its exit poll has seen the child
\* end: nothing else (no timer) ends the read loop.
C31_ReturnsOnlyAfterChildEnded ==
  \A t \in Callers :
    (Returned(t) /\ Launched(t) /\ ~hist[t].read_error /\ stops = 0)
      => /\ hist[t].observed.wait_result # 0
         /\ ~Running(hist[t].child)

C31_Witness ==
  /\ Returned(1)
  /\ Launched(1)
  /\ ~hist[1].read_error
  /\ stops = 0
  /\ hist[1].observed.wait_result = hist[1].child
  /\ Len(hist[1].classified) > 0

\* the child of caller t's call waits for a line of input that is not in the
\* feed pipe
ChildWaitsForInput(t) ==
  /\ Running(hist[t].child)
  /\ children[hist[t].child].script # <<>>
  /\ Head(children[hist[t].child].script).op = "in"
  /\ ~contains(pipes[hist[t].feed].data, <<NL>>)

\* the final drain of caller t's call waits in a read of the empty capture
\* pipe for a child that waits for its input: neither can go on
DrainWaitsForChild(t) ==
  /\ pc[t] = "drain"
  /\ Launched(t)
  /\ win32
  /\ pipes[hist[t].cap].data = <<>>
  /\ ChildWaitsForInput(t)

\* C32: once stop() has been called or the child has ended, the call in
\* flight can go on to its return: the supervising process is alive, and the
\* final drain is not left waiting for bytes of a child that itself waits.
C32_EndedOrStoppedCallReturns ==
  \A t \in Callers :
    (Launched(t) /\ pc[t] \in {"poll", "read", "drain", "exit_code", "cleanup", "join"}
       /\ (stops > 0 \/ ~Running(hist[t].child)))
      => proc_alive /\ ~DrainWaitsForChild(t)

\* what the child of caller t's call has written to the capture pipe
WrittenBy(t) == pipes[hist[t].cap].written

StepLines == IF NewLines(1) # <<>> THEN NewLines(1) ELSE NewLines(2)

\* C34: getLastError() changes only in a step that classifies an error line,
\* and is then the last error line of the step: the start of a call, a launch
\* failure and a rejected call leave it as it was, so that it keeps the error
\* line of an earlier execution.
C34_LastErrorOutlivesExecutions ==
  [][getLastError' =
       IF ErrorLinesOf(StepLines) # {}
         THEN LastAt(StepLines, ErrorLinesOf(StepLines))
         ELSE getLastError]_vars

\* the second execution had no error line and returned an empty error field
\* while getLastError() still gives the first execution's line
C34_Witness ==
  /\ Returned(1)
  /\ Launched(1)
  /\ hist[1].cap > 1
  /\ hist[1].classified = <<L_Frame>>
  /\ result[1].error = <<>>
  /\ getLastError = L_Error

\* C35: no close() is ever made on a pipe end that the supervising process
\* has closed already: neither right after the launch, nor on a launch
\* failure, nor in the cleanup.
C35_NoEndpointClosedTwice == bad_closes = 0
====
